---- MODULE Spec2Model ----
(***************************************************************************)
(* Model of sql_bulk_import_profile: the column graph (column_graph.rs),   *)
(* the staging table (temporary_table.rs), the insert / update / merge     *)
(* processors and the orchestrator (import_executor.rs).                   *)
(*                                                                         *)
(* Identifiers are pairs <<table, column part>>.  Values stored in the     *)
(* database are strings; Null stands for SQL NULL.                         *)
(***************************************************************************)
EXTENDS Integers, Sequences, FiniteSets, TLC

Null == "<NULL>"

(***************************************************************************)
(* Generic helpers                                                         *)
(***************************************************************************)
Range(s) == {s[i] : i \in DOMAIN s}

Min(S) == CHOOSE x \in S : \A y \in S : x <= y


RECURSIVE SetToSeq(_)
SetToSeq(S) == IF S = {} THEN <<>> ELSE <<Min(S)>> \o SetToSeq(S \ {Min(S)})

RECURSIVE FilterSeq(_, _)
FilterSeq(s, keep) ==
    IF s = <<>> THEN <<>>
    ELSE (IF keep[1] THEN <<s[1]>> ELSE <<>>) \o FilterSeq(Tail(s), Tail(keep))

Reverse(s) == [i \in 1..Len(s) |-> s[Len(s) + 1 - i]]

(***************************************************************************)
(* table_mapper.rs: the columns of a table mapper                          *)
(***************************************************************************)
StaticColumn(id, map, value) ==
    [kind |-> "Static", column_identifier |-> id, map_column |-> map, value |-> value]

ParserColumn(id, map, field) ==
    [kind |-> "Parser", column_identifier |-> id, map_column |-> map, field_name |-> field]

LookupColumn(id, map, table, out, keys) ==
    [kind |-> "Lookup", column_identifier |-> id, map_column |-> map,
     table_identifier |-> table, output_column_identifier |-> out, key_columns |-> keys]

ParserKeyColumn(kid, field) ==
    [kind |-> "ParserKey", key_column_identifier |-> kid, field_name |-> field]

ProcessedKeyColumn(kid, cid) ==
    [kind |-> "ProcessedKey", key_column_identifier |-> kid, column_identifier |-> cid]

TableMapper(name, table, columns, keys) ==
    [name |-> name, table_identifier |-> table, columns |-> columns, key_columns |-> keys]

\* Column::identifier for the columns and the key columns of table_mapper.rs
ColumnIdentifierOf(c) ==
    IF c.kind \in {"ParserKey", "ProcessedKey"} THEN c.key_column_identifier
    ELSE c.column_identifier

\* Column::map for the columns and the key columns of table_mapper.rs
ColumnMapOf(c) ==
    IF c.kind \in {"ParserKey", "ProcessedKey"} THEN FALSE ELSE c.map_column

(***************************************************************************)
(* column_graph.rs: nodes                                                  *)
(***************************************************************************)
ColumnNode(kind, column) ==
    IF kind \in {"StaticColumn", "ParserColumn", "LookupColumn"}
    THEN [kind |-> kind, column |-> column, map_column |-> FALSE]
    ELSE [kind |-> kind, column |-> column]

NodeIdentifier(n) == ColumnIdentifierOf(n.column)

NodeMap(n) ==
    IF n.kind \in {"StaticColumn", "ParserColumn", "LookupColumn"}
    THEN n.map_column \/ ColumnMapOf(n.column)
    ELSE FALSE

is_transient(n) ==
    n.kind \in {"StaticColumn", "LookupColumnParserKeyColumn", "LookupColumnProcessedKeyColumn"}

(***************************************************************************)
(* A graph is [node, next, edges, dynamic]: node maps the live node        *)
(* indices to their weights, next is the next fresh index, edges is the    *)
(* list of <<source, target>> pairs in the order they were added, dynamic  *)
(* the indices of the injected Parser nodes.                               *)
(***************************************************************************)
EmptyGraph == [node |-> <<>>, next |-> 0, edges |-> <<>>, dynamic |-> {}]

add_node(g, n) ==
    [g EXCEPT !.node = (g.next :> n) @@ g.node, !.next = g.next + 1]

add_edge(g, a, b) == [g EXCEPT !.edges = Append(g.edges, <<a, b>>)]

\* StableGraph::update_edge: adds the edge unless it is already there
update_edge(g, a, b) ==
    IF <<a, b>> \in Range(g.edges) THEN g ELSE add_edge(g, a, b)

\* StableGraph::remove_node: the node goes, and every edge touching it
remove_node(g, a) ==
    [g EXCEPT !.node = [i \in (DOMAIN g.node) \ {a} |-> g.node[i]],
              !.edges = FilterSeq(g.edges,
                          [k \in 1..Len(g.edges) |-> g.edges[k][1] # a /\ g.edges[k][2] # a])]

\* neighbors_directed(index, Incoming): the most recently added edge first
IncomingNeighbors(g, b) ==
    LET own == FilterSeq(g.edges, [k \in 1..Len(g.edges) |-> g.edges[k][2] = b])
    IN  Reverse([k \in 1..Len(own) |-> own[k][1]])

Predecessors(g, b) == {e[1] : e \in {x \in Range(g.edges) : x[2] = b}}

\* the key columns of one Lookup column: key node, edge to the lookup, and
\* for a parser key the injected Parser node with its edge to the key node
RECURSIVE AddLookupKeys(_, _, _)
AddLookupKeys(g, keys, lookup_column_index) ==
    IF keys = <<>> THEN g
    ELSE LET key == Head(keys)
             key_index == g.next
         IN  IF key.kind = "ParserKey"
             THEN LET g1 == add_node(g, ColumnNode("LookupColumnParserKeyColumn", key))
                      g2 == add_edge(g1, key_index, lookup_column_index)
                      target_index == g2.next
                      g3 == add_node(g2, ColumnNode("ParserColumn",
                               ParserColumn(key.key_column_identifier, FALSE, key.field_name)))
                      g4 == add_edge(g3, target_index, key_index)
                      g5 == [g4 EXCEPT !.dynamic = @ \cup {target_index}]
                  IN  AddLookupKeys(g5, Tail(keys), lookup_column_index)
             ELSE LET g1 == add_node(g, ColumnNode("LookupColumnProcessedKeyColumn", key))
                      g2 == add_edge(g1, key_index, lookup_column_index)
                  IN  AddLookupKeys(g2, Tail(keys), lookup_column_index)

\* "add graph nodes"
RECURSIVE AddColumns(_, _)
AddColumns(g, columns) ==
    IF columns = <<>> THEN g
    ELSE LET c == Head(columns)
         IN  IF c.kind = "Static"
             THEN AddColumns(add_node(g, ColumnNode("StaticColumn", c)), Tail(columns))
             ELSE IF c.kind = "Parser"
             THEN AddColumns(add_node(g, ColumnNode("ParserColumn", c)), Tail(columns))
             ELSE AddColumns(
                    AddLookupKeys(add_node(g, ColumnNode("LookupColumn", c)),
                                  c.key_columns, g.next),
                    Tail(columns))

\* the find_map of "add graph edges for processed key columns": the first
\* node that is not an injected one and carries the identifier that
\* Column::identifier gives for the processed key column
ProcessedKeyTargets(g, key) ==
    {i \in DOMAIN g.node :
        /\ g.node[i].kind \in {"StaticColumn", "ParserColumn", "LookupColumn"}
        /\ i \notin g.dynamic
        /\ NodeIdentifier(g.node[i]) = ColumnIdentifierOf(key)}

ProcessedKeyNodes(g) ==
    {i \in DOMAIN g.node : g.node[i].kind = "LookupColumnProcessedKeyColumn"}

RECURSIVE AddEdgeList(_, _)
AddEdgeList(g, pairs) ==
    IF pairs = <<>> THEN g
    ELSE AddEdgeList(add_edge(g, pairs[1][1], pairs[1][2]), Tail(pairs))

\* either [ok |-> TRUE, graph |-> g'] or the first unknown target
AddProcessedKeyEdges(g) ==
    LET pks == SetToSeq(ProcessedKeyNodes(g))
        unknown == {i \in ProcessedKeyNodes(g) : ProcessedKeyTargets(g, g.node[i].column) = {}}
    IN  IF unknown # {}
        THEN [ok |-> FALSE, error |-> "ProcessedKeyColumnUnknownTargetColumn",
              column |-> NodeIdentifier(g.node[Min(unknown)])]
        ELSE [ok |-> TRUE,
              graph |-> AddEdgeList(g,
                  [k \in 1..Len(pks) |->
                      <<Min(ProcessedKeyTargets(g, g.node[pks[k]].column)), pks[k]>>])]

(***************************************************************************)
(* column_graph.rs: duplicate optimization                                 *)
(***************************************************************************)
\* into_group_map over the node weights: the indices of equal nodes, each
\* group in index order; groups are taken in the order of their first index
\* grouping Parser nodes by their source field alone
DuplicateGroupOfByField(g, i) ==
    {j \in DOMAIN g.node :
        \/ g.node[j] = g.node[i]
        \/ /\ g.node[i].kind = "ParserColumn" /\ g.node[j].kind = "ParserColumn"
           /\ g.node[i].column.field_name = g.node[j].column.field_name}

DuplicateGroupOf(g, i) == {j \in DOMAIN g.node : g.node[j] = g.node[i]}

DuplicateGroups(g) ==
    LET firsts == {i \in DOMAIN g.node : i = Min(DuplicateGroupOf(g, i))}
        fs == SetToSeq(firsts)
    IN  [k \in 1..Len(fs) |-> SetToSeq(DuplicateGroupOf(g, fs[k]))]

\* the loop over the collected edge indices for one nth_duplicate
RECURSIVE RedirectEdges(_, _, _, _)
RedirectEdges(g, snapshot, first_duplicate, nth_duplicate) ==
    IF snapshot = <<>> THEN g
    ELSE LET source == snapshot[1][1]
             target == snapshot[1][2]
             g1 == IF source = nth_duplicate THEN update_edge(g, first_duplicate, target)
                   ELSE IF target = nth_duplicate THEN update_edge(g, source, first_duplicate)
                   ELSE g
         IN  RedirectEdges(g1, Tail(snapshot), first_duplicate, nth_duplicate)

\* *map_column = *map_column || map_nth_duplicate
OrMapColumn(n, map_nth_duplicate) ==
    IF n.kind \in {"StaticColumn", "ParserColumn", "LookupColumn"}
    THEN [n EXCEPT !.map_column = n.map_column \/ map_nth_duplicate]
    ELSE n

MergeDuplicate(g, first_duplicate, nth_duplicate) ==
    LET g1 == RedirectEdges(g, g.edges, first_duplicate, nth_duplicate)
        g2 == [g1 EXCEPT !.node[first_duplicate] =
                  OrMapColumn(g1.node[first_duplicate], NodeMap(g1.node[nth_duplicate]))]
    IN  remove_node(g2, nth_duplicate)

RECURSIVE MergeDuplicateGroup(_, _, _)
MergeDuplicateGroup(g, first_duplicate, nth_duplicates) ==
    IF nth_duplicates = <<>> THEN g
    ELSE MergeDuplicateGroup(MergeDuplicate(g, first_duplicate, Head(nth_duplicates)),
                             first_duplicate, Tail(nth_duplicates))

RECURSIVE MergeDuplicateGroups(_, _)
MergeDuplicateGroups(g, duplicate_groups) ==
    IF duplicate_groups = <<>> THEN g
    ELSE LET duplicate_group == Head(duplicate_groups)
         IN  MergeDuplicateGroups(
                 IF Len(duplicate_group) >= 2
                 THEN MergeDuplicateGroup(g, Head(duplicate_group), Tail(duplicate_group))
                 ELSE g,
                 Tail(duplicate_groups))

DuplicateOptimization(g) == MergeDuplicateGroups(g, DuplicateGroups(g))

(***************************************************************************)
(* column_graph.rs: grouping, unique identifiers, metadata                 *)
(***************************************************************************)
\* toposort_grouped(&graph, Eager): a node goes into the first group after
\* the groups of all its predecessors; what is left when no node is ready
\* lies on or behind a cycle
\* the nodes from which the node i can be reached
RECURSIVE Ancestors(_, _, _)
Ancestors(g, frontier, seen) ==
    LET found == UNION {Predecessors(g, i) : i \in frontier} \ seen
    IN  IF found = {} THEN seen ELSE Ancestors(g, found, seen \cup found)

\* any of the nodes that are left when no node is ready
CycleNodesAnyRemaining(g, remaining) == remaining

\* cycle.node_id(): a node that lies on a cycle, which one is up to the sort
CycleNodes(g, remaining) == {i \in remaining : i \in Ancestors(g, {i}, {})}

\* the map_err of toposort_grouped: ColumnCycle with the identifier of the
\* node of the cycle error; columns holds the identifiers it can be
ColumnCycle(g, remaining) ==
    [ok |-> FALSE, error |-> "ColumnCycle", nodes |-> remaining,
     columns |-> {NodeIdentifier(g.node[i]) : i \in CycleNodes(g, remaining)}]

\* a grouping that is a topological order but not the eager one: one ready
\* node per group
RECURSIVE ToposortOneByOne(_, _, _)
ToposortOneByOne(g, placed, groups) ==
    LET remaining == (DOMAIN g.node) \ placed
        ready == {i \in remaining : Predecessors(g, i) \subseteq placed}
        first == CHOOSE i \in ready : \A j \in ready : i <= j
    IN  IF remaining = {} THEN [ok |-> TRUE, groups |-> groups]
        ELSE IF ready = {} THEN ColumnCycle(g, remaining)
        ELSE ToposortOneByOne(g, placed \cup {first}, Append(groups, <<first>>))

RECURSIVE ToposortLayers(_, _, _)
ToposortLayers(g, placed, groups) ==
    LET remaining == (DOMAIN g.node) \ placed
        ready == {i \in remaining : Predecessors(g, i) \subseteq placed}
    IN  IF remaining = {} THEN [ok |-> TRUE, groups |-> groups]
        ELSE IF ready = {} THEN ColumnCycle(g, remaining)
        ELSE ToposortLayers(g, placed \cup ready, Append(groups, SetToSeq(ready)))

toposort_grouped(g) == ToposortLayers(g, {}, <<>>)

\* "{part_unescaped}_{index}" under the table of the node's identifier
UniqueColumnIdentifier(n, index) ==
    [table |-> NodeIdentifier(n)[1], part_unescaped |-> NodeIdentifier(n)[2], index |-> index]

build_unique_identifiers(g) ==
    [i \in DOMAIN g.node |-> UniqueColumnIdentifier(g.node[i], i)]

\* a default that is nullable
default_metadata_nullable == [flags |-> {"Nullable"}, ty |-> "NVarchar"]

\* flags: Default::default(), ty: NVARCHAR(max)
default_metadata == [flags |-> {}, ty |-> "NVarchar"]

build_metadata(g, table_metadata) ==
    [i \in DOMAIN g.node |->
        LET id == NodeIdentifier(g.node[i])
            columns == table_metadata[id[1]]
        IN  IF id \in DOMAIN columns THEN columns[id] ELSE default_metadata]

\* the end of ColumnGraph::new: the ColumnCycle error, or the graph with
\* its groups, unique identifiers and metadata
BuiltColumnGraph(g, sorted, table_metadata) ==
    IF ~sorted.ok THEN sorted
    ELSE [ok |-> TRUE, graph |-> g, groups |-> sorted.groups,
          unique_identifiers |-> build_unique_identifiers(g),
          metadata |-> build_metadata(g, table_metadata)]

\* ColumnGraph::new from toposort_grouped on
GroupedColumnGraph(g, table_metadata) ==
    BuiltColumnGraph(g, toposort_grouped(g), table_metadata)

\* ColumnGraph::new from the duplicate optimization on
OptimizedColumnGraph(g, table_metadata, import_options) ==
    GroupedColumnGraph(IF ~import_options.no_duplicate_optimization
                       THEN DuplicateOptimization(g) ELSE g,
                       table_metadata)

\* ColumnGraph::new after the edges of the processed key columns
ColumnGraphFromEdges(edges, table_metadata, import_options) ==
    IF ~edges.ok THEN edges
    ELSE OptimizedColumnGraph(edges.graph, table_metadata, import_options)

\* ColumnGraph::new
ColumnGraphNew(table_mapper, table_metadata, import_options) ==
    ColumnGraphFromEdges(AddProcessedKeyEdges(AddColumns(EmptyGraph, table_mapper.columns)),
                         table_metadata, import_options)

\* target columns that are all the nodes of the graph, mapped or not
target_columns_unfiltered(cg) == SetToSeq(DOMAIN cg.graph.node)

\* ColumnGraph::target_columns: the nodes with map(), in index order
target_columns(cg) ==
    SetToSeq({i \in DOMAIN cg.graph.node : NodeMap(cg.graph.node[i])})

\* ColumnGraph::column_dependencies
column_dependencies(cg, index) == IncomingNeighbors(cg.graph, index)

(***************************************************************************)
(* temporary_table.rs                                                      *)
(***************************************************************************)
RECURSIVE Concat(_)
Concat(ss) == IF ss = <<>> THEN <<>> ELSE Head(ss) \o Concat(Tail(ss))

\* schema [import], table named by the unescaped part of the target table
TemporaryTableIdentifier(target_table) == <<"import", target_table>>

\* staging columns whose nullability is that of the metadata in every group
TemporaryTableColumnsByMetadata(cg) ==
    Concat([g \in 1..Len(cg.groups) |->
        LET group == cg.groups[g]
            kept == FilterSeq(group,
                      [k \in 1..Len(group) |-> ~is_transient(cg.graph.node[group[k]])])
        IN  [k \in 1..Len(kept) |->
                [name |-> cg.unique_identifiers[kept[k]],
                 ty |-> cg.metadata[kept[k]].ty,
                 nullable |-> "Nullable" \in cg.metadata[kept[k]].flags]]])

\* one column per non-transient node; NULL iff the metadata is nullable or
\* the position of the group is Middle or Last
TemporaryTableColumns(cg) ==
    Concat([g \in 1..Len(cg.groups) |->
        LET group == cg.groups[g]
            kept == FilterSeq(group,
                      [k \in 1..Len(group) |-> ~is_transient(cg.graph.node[group[k]])])
        IN  [k \in 1..Len(kept) |->
                [name |-> cg.unique_identifiers[kept[k]],
                 ty |-> cg.metadata[kept[k]].ty,
                 nullable |-> ("Nullable" \in cg.metadata[kept[k]].flags) \/ g > 1]]])

(***************************************************************************)
(* insert_processor.rs                                                     *)
(***************************************************************************)
SupportedTypes == {"Int1", "Bit", "Int4", "NVarchar", "Decimaln"}

\* the texts of the model that are integer literals, with the number they
\* denote; str::parse of an integer type accepts such a text when the number
\* is in the range of the type
IntegerValue ==
    ("1" :> 1) @@ ("2" :> 2) @@ ("02" :> 2) @@ ("7" :> 7) @@ ("300" :> 300) @@ ("-1" :> -1)

\* str::parse::<u8>().ok()
ParseU8(field_value) ==
    IF field_value \in DOMAIN IntegerValue /\ IntegerValue[field_value] \in 0..255
    THEN ToString(IntegerValue[field_value])
    ELSE Null

\* str::parse::<i32>().ok()
ParseI32(field_value) ==
    IF field_value \in DOMAIN IntegerValue
       /\ IntegerValue[field_value] \in (-2147483647 - 1)..2147483647
    THEN ToString(IntegerValue[field_value])
    ELSE Null

\* str::parse::<bool>().ok(): "true" and "false" and nothing else
ParseBool(field_value) ==
    IF field_value = "true" THEN "1" ELSE IF field_value = "false" THEN "0" ELSE Null

\* the texts of the model that str::parse::<Decimal> accepts
DecimalLiterals == {"9.50", "7", "300", "1", "2", "-1"}

ParseDecimal(field_value) ==
    IF field_value \in DecimalLiterals THEN field_value ELSE Null

\* a match on metadata.ty that sends a default where the text does not parse
ColumnDataDefaulting(ty, field_value) ==
    IF ty = "Int4" THEN (IF ParseI32(field_value) = Null THEN "0" ELSE ParseI32(field_value))
    ELSE IF ty = "Int1" THEN (IF ParseU8(field_value) = Null THEN "0" ELSE ParseU8(field_value))
    ELSE IF ty = "Bit" THEN (IF ParseBool(field_value) = Null THEN "0" ELSE ParseBool(field_value))
    ELSE IF ty = "Decimaln"
    THEN (IF ParseDecimal(field_value) = Null THEN "0" ELSE ParseDecimal(field_value))
    ELSE field_value

\* the match on metadata.ty of process_record: a cell, parse failure is NULL
ColumnData(ty, field_value) ==
    IF ty = "Int4" THEN ParseI32(field_value)
    ELSE IF ty = "Int1" THEN ParseU8(field_value)
    ELSE IF ty = "Bit" THEN ParseBool(field_value)
    ELSE IF ty = "Decimaln" THEN ParseDecimal(field_value)
    ELSE field_value

\* InsertProcessor::new: the group-0 nodes, which must be Parser nodes
InsertTargetColumns(cg) == cg.groups[1]

InsertProcessorUnreachable(cg) ==
    \E k \in 1..Len(cg.groups[1]) : cg.graph.node[cg.groups[1][k]].kind # "ParserColumn"

\* process_record, column by column: the first column that stops the loop
\* decides between RecordMissingField and the panic of an unsupported type
RECURSIVE ProcessRecordFrom(_, _, _, _)
ProcessRecordFrom(cg, columns, record, row) ==
    IF columns = <<>> THEN [outcome |-> "row", row |-> row]
    ELSE LET parser_column == cg.graph.node[Head(columns)].column
             ty == cg.metadata[Head(columns)].ty
         IN  IF parser_column.field_name \notin DOMAIN record
             THEN [outcome |-> "RecordMissingField", field |-> parser_column.field_name,
                   column |-> parser_column.column_identifier]
             ELSE IF ty \notin SupportedTypes
             THEN [outcome |-> "panic"]
             ELSE ProcessRecordFrom(cg, Tail(columns), record,
                      Append(row, ColumnData(ty, record[parser_column.field_name])))

\* a process_record that leaves out the cells of the missing fields and
\* sends what is left
process_record_skipping(cg, record) ==
    LET columns == InsertTargetColumns(cg)
        present == FilterSeq(columns,
                     [k \in 1..Len(columns) |->
                         cg.graph.node[columns[k]].column.field_name \in DOMAIN record])
    IN  [outcome |-> "row",
         row |-> [k \in 1..Len(present) |->
                     ColumnData(cg.metadata[present[k]].ty,
                                record[cg.graph.node[present[k]].column.field_name])]]

process_record(cg, record) == ProcessRecordFrom(cg, InsertTargetColumns(cg), record, <<>>)

(***************************************************************************)
(* update_processor.rs                                                     *)
(***************************************************************************)
None == [none |-> TRUE]

\* a search that finds no non-transient node, so that the key node stays
FindNonTransientNever(cg, index) == -1

\* successors(Some(dep), |prev| column_dependencies(prev).next())
\*     .find(|s| !s.column().is_transient()).unwrap_or(dep)
RECURSIVE FindNonTransient(_, _)
FindNonTransient(cg, index) ==
    IF ~is_transient(cg.graph.node[index]) THEN index
    ELSE IF column_dependencies(cg, index) = <<>> THEN -1
    ELSE FindNonTransient(cg, Head(column_dependencies(cg, index)))

\* a dependency that is the Static column when the chain ends in one
EffectiveDependencyOrStatic(cg, target_column_dependency) ==
    LET found == FindNonTransient(cg, target_column_dependency)
        last == Head(column_dependencies(cg, target_column_dependency))
    IN  IF found # -1 THEN found
        ELSE IF column_dependencies(cg, target_column_dependency) # <<>>
                /\ cg.graph.node[last].kind = "StaticColumn"
        THEN last
        ELSE target_column_dependency

EffectiveDependency(cg, target_column_dependency) ==
    LET found == FindNonTransient(cg, target_column_dependency)
    IN  IF found = -1 THEN target_column_dependency ELSE found

\* the parameter bound for a Static dependency; "error" is the Err that the
\* try_fold unwraps
StaticParameter(cg, dependency) ==
    LET ty == cg.metadata[dependency].ty
        value == cg.graph.node[dependency].column.value
    IN  IF ty \notin SupportedTypes THEN "error"
        ELSE IF ty # "NVarchar" /\ ColumnData(ty, value) = Null THEN "error"
        ELSE ColumnData(ty, value)

\* a lookup that selects the key column it searched by
LookupOutputColumnIsKey(cg, column) ==
    cg.graph.node[column].column.key_columns[1].key_column_identifier[2]

\* output_column = lookup_column.output_column_identifier().part()
LookupOutputColumn(cg, column) ==
    cg.graph.node[column].column.output_column_identifier[2]

\* the statement parts of one Lookup node; index is the value of
\* static_column_parameter_index before the node
LookupParts(cg, column, index) ==
    LET dependencies == column_dependencies(cg, column)
        pairs == [k \in 1..Len(dependencies) |->
                    [key_column_identifier |-> NodeIdentifier(cg.graph.node[dependencies[k]])[2],
                     dependency |-> EffectiveDependency(cg, dependencies[k])]]
        is_static == [k \in 1..Len(pairs) |->
                        cg.graph.node[pairs[k].dependency].kind = "StaticColumn"]
        static_column_dependencies == FilterSeq(pairs, is_static)
        column_dependencies_ == FilterSeq(pairs, [k \in 1..Len(pairs) |-> ~is_static[k]])
    IN  [target_column |-> cg.unique_identifiers[column],
         output_column |-> LookupOutputColumn(cg, column),
         lookup_table |-> cg.graph.node[column].column.table_identifier,
         column_conditions |->
             [k \in 1..Len(column_dependencies_) |->
                 [key |-> column_dependencies_[k].key_column_identifier,
                  dependency |-> cg.unique_identifiers[column_dependencies_[k].dependency]]],
         static_conditions |->
             [k \in 1..Len(static_column_dependencies) |->
                 [key |-> static_column_dependencies[k].key_column_identifier,
                  placeholder |-> index + k - 1]],
         parameters |->
             [k \in 1..Len(static_column_dependencies) |->
                 StaticParameter(cg, static_column_dependencies[k].dependency)]]

\* the try_fold over the nodes of the group: only Lookup nodes contribute
RECURSIVE UpdateFold(_, _, _)
UpdateFold(cg, columns, acc) ==
    IF columns = <<>> THEN acc
    ELSE IF cg.graph.node[Head(columns)].kind = "LookupColumn"
              /\ ~is_transient(cg.graph.node[Head(columns)])
    THEN LET parts == LookupParts(cg, Head(columns), acc.static_column_parameter_index)
         IN  UpdateFold(cg, Tail(columns),
               [lookups |-> Append(acc.lookups, parts),
                parameters |-> acc.parameters \o parts.parameters,
                static_column_parameter_index |->
                    acc.static_column_parameter_index + Len(parts.static_conditions)])
    ELSE UpdateFold(cg, Tail(columns), acc)

\* update_processor::execute up to the statement: "panic" stands for the
\* unwrap of a failed parameter conversion and for the assert_eq! on the
\* number of placeholders, "none" for no Lookup in the group
UpdateStatement(cg, temporary_table, group) ==
    LET acc == UpdateFold(cg, group,
                 [lookups |-> <<>>, parameters |-> <<>>, static_column_parameter_index |-> 0])
    IN  IF "error" \in Range(acc.parameters) THEN [kind |-> "panic"]
        ELSE IF acc.static_column_parameter_index # Len(acc.parameters)
        THEN [kind |-> "panic"]
        ELSE IF acc.lookups = <<>> THEN [kind |-> "none"]
        ELSE [kind |-> "UPDATE", table |-> temporary_table,
              lookups |-> acc.lookups, parameters |-> acc.parameters]

(***************************************************************************)
(* merge_processor.rs                                                      *)
(***************************************************************************)
RECURSIVE Dedup(_)
Dedup(s) ==
    IF s = <<>> THEN <<>>
    ELSE LET rest == Dedup(Tail(s))
         IN  <<Head(s)>> \o FilterSeq(rest, [k \in 1..Len(rest) |-> rest[k] # Head(s)])

\* columns.iter().find(|column| key_column == column.column().identifier())
KeyColumnNodes(cg, columns, key_column) ==
    {i \in Range(columns) : NodeIdentifier(cg.graph.node[i]) = key_column}

IsIdentity(cg, i) == cg.metadata[i].flags = {"Identity"}

\* a SET list that takes only the columns read from the data source
SetUpdateColumnsParserOnly(cg, columns, key_columns) ==
    FilterSeq(columns,
        [k \in 1..Len(columns) |->
            /\ cg.graph.node[columns[k]].kind = "ParserColumn"
            /\ ~(IsIdentity(cg, columns[k])
                 \/ NodeIdentifier(cg.graph.node[columns[k]]) \in Range(key_columns))])

\* the filter_map of set_update_columns: neither identity nor key columns
SetUpdateColumns(cg, columns, key_columns) ==
    FilterSeq(columns,
        [k \in 1..Len(columns) |->
            ~(IsIdentity(cg, columns[k])
              \/ NodeIdentifier(cg.graph.node[columns[k]]) \in Range(key_columns))])

\* merge_processor::execute up to the statement
MergeStatement(cg, target_table, temporary_table, key_columns) ==
    LET columns == target_columns(cg)
        unknown == FilterSeq(key_columns,
                     [k \in 1..Len(key_columns) |->
                         KeyColumnNodes(cg, columns, key_columns[k]) = {}])
        keys == Dedup(key_columns)
        set_columns == SetUpdateColumns(cg, columns, key_columns)
        insert_target == FilterSeq(columns,
                     [k \in 1..Len(columns) |->
                         ~(IsIdentity(cg, columns[k]) \/ is_transient(cg.graph.node[columns[k]]))])
        insert_temporary == FilterSeq(columns,
                     [k \in 1..Len(columns) |-> ~IsIdentity(cg, columns[k])])
    IN  IF unknown # <<>>
        THEN [kind |-> "KeyColumnUnknownTargetColumn", column |-> Head(unknown)]
        ELSE [kind |-> "MERGE", target_table |-> target_table, table |-> temporary_table,
              on_key_columns |->
                  [k \in 1..Len(keys) |->
                      [key_column |-> keys[k][2],
                       column |-> cg.unique_identifiers[
                                     Min(KeyColumnNodes(cg, columns, keys[k]))]]],
              set_update_columns |->
                  [k \in 1..Len(set_columns) |->
                      [target_column |-> NodeIdentifier(cg.graph.node[set_columns[k]])[2],
                       temporary_column |-> cg.unique_identifiers[set_columns[k]]]],
              insert_columns_target |->
                  [k \in 1..Len(insert_target) |->
                      NodeIdentifier(cg.graph.node[insert_target[k]])[2]],
              insert_columns_temporary |->
                  [k \in 1..Len(insert_temporary) |->
                      cg.unique_identifiers[insert_temporary[k]]]]

(***************************************************************************)
(* The database server, as far as the statements above use it.  A table is *)
(* a sequence of rows, a row a function from column names to values.  The  *)
(* statements are T-SQL: comparisons with NULL are never true, OUTER APPLY *)
(* with TOP 1 and no ORDER BY yields any one of the matching rows or NULL, *)
(* a MERGE that would update one target row from two source rows fails.    *)
(*                                                                         *)
(* The database of the model: the tables of the example profiles           *)
(* (tests/examples.rs), their column metadata as column_metadata reports   *)
(* it, and their rows before the import.  Identity columns of the target   *)
(* tables are not carried in the rows.                                     *)
(***************************************************************************)
Col(table, part) == <<table, part>>

Meta(ty, flags) == [ty |-> ty, flags |-> flags]

ServerMetadata ==
    [Company |-> (Col("Company", "ID") :> Meta("Int4", {"Identity"}))
              @@ (Col("Company", "Code") :> Meta("NVarchar", {}))
              @@ (Col("Company", "Name") :> Meta("NVarchar", {"Nullable"}))
              @@ (Col("Company", "CountryID") :> Meta("Int4", {"Nullable"}))
              @@ (Col("Company", "Peer") :> Meta("NVarchar", {"Nullable"})),
     Country |-> (Col("Country", "ID") :> Meta("Int4", {}))
              @@ (Col("Country", "Code") :> Meta("NVarchar", {})),
     Currency |-> (Col("Currency", "ID") :> Meta("Int4", {"Identity"}))
              @@ (Col("Currency", "Code") :> Meta("NVarchar", {}))
              @@ (Col("Currency", "Name") :> Meta("NVarchar", {"Nullable"})),
     Product |-> (Col("Product", "ID") :> Meta("Int4", {"Identity", "Key"}))
              @@ (Col("Product", "Code") :> Meta("NVarchar", {}))
              @@ (Col("Product", "Stock") :> Meta("Int1", {"Nullable"}))
              @@ (Col("Product", "Active") :> Meta("Bit", {"Nullable"}))
              @@ (Col("Product", "Price") :> Meta("Decimaln", {"Nullable"}))
              @@ (Col("Product", "Notes") :> Meta("Xml", {"Nullable"}))]

\* the columns of a table that its rows carry
RowColumns(table) ==
    {id[2] : id \in {c \in DOMAIN ServerMetadata[table] :
                        "Identity" \notin ServerMetadata[table][c].flags}}

InitialTables ==
    [Company |-> <<[Code |-> "MSFT", Name |-> "Microsoft", CountryID |-> "2", Peer |-> Null]>>,
     Country |-> <<[ID |-> "1", Code |-> "FR"], [ID |-> "2", Code |-> "DE"],
                   [ID |-> "3", Code |-> "DE"]>>,
     Currency |-> <<[Code |-> "EUR", Name |-> "EURO"]>>,
     Product |-> <<[Code |-> "P1", Stock |-> "1", Active |-> "0", Price |-> "1",
                    Notes |-> Null]>>]

InitialDatabase == [tables |-> InitialTables, staging |-> <<>>]

SqlEquals(a, b) == a # Null /\ b # Null /\ a = b

HasDuplicates(s) == \E i, j \in 1..Len(s) : i < j /\ s[i] = s[j]

ColumnNames(table) == {table.columns[k].name : k \in 1..Len(table.columns)}

\* IF EXISTS ... DROP TABLE; CREATE TABLE
ServerCreateTable(database, name, columns) ==
    [database EXCEPT !.staging =
        (name :> [columns |-> columns, rows |-> <<>>])
        @@ [n \in (DOMAIN database.staging) \ {name} |-> database.staging[n]]]

ServerDropTable(database, name) ==
    [database EXCEPT !.staging = [n \in (DOMAIN @) \ {name} |-> @[n]]]

\* the rows of a finalized bulk load: the listed columns by position, every
\* other column of the table NULL
ServerBulkLoad(database, name, bulk_columns, bulk_rows) ==
    LET table == database.staging[name]
        position(c) == CHOOSE k \in 1..Len(bulk_columns) : bulk_columns[k] = c
        new_rows == [r \in 1..Len(bulk_rows) |->
                       [c \in ColumnNames(table) |->
                           IF c \in Range(bulk_columns) THEN bulk_rows[r][position(c)]
                           ELSE Null]]
    IN  [database EXCEPT !.staging[name].rows = @ \o new_rows]

\* the UPDATE is accepted when every staging column it names exists, every
\* OUTER APPLY has a condition and every placeholder @Pk names one of the
\* parameters @P1.. that the driver declares
UpdateAccepted(database, statement) ==
    /\ statement.table \in DOMAIN database.staging
    /\ \A j \in 1..Len(statement.lookups) :
        LET l == statement.lookups[j]
        IN  /\ l.target_column \in ColumnNames(database.staging[statement.table])
            /\ Len(l.column_conditions) + Len(l.static_conditions) >= 1
            /\ \A k \in 1..Len(l.column_conditions) :
                   l.column_conditions[k].dependency
                       \in ColumnNames(database.staging[statement.table])
            /\ \A k \in 1..Len(l.static_conditions) :
                   l.static_conditions[k].placeholder \in 1..Len(statement.parameters)

\* the values the OUTER APPLY of one lookup can deliver for the row t
LookupCandidates(database, statement, l, t) ==
    LET rows == database.tables[l.lookup_table]
        matching == {r \in 1..Len(rows) :
            /\ \A k \in 1..Len(l.column_conditions) :
                  SqlEquals(rows[r][l.column_conditions[k].key],
                            t[l.column_conditions[k].dependency])
            /\ \A k \in 1..Len(l.static_conditions) :
                  SqlEquals(rows[r][l.static_conditions[k].key],
                            statement.parameters[l.static_conditions[k].placeholder])}
    IN  IF matching = {} THEN {Null} ELSE {rows[r][l.output_column] : r \in matching}

UpdatedRows(database, statement, t) ==
    LET n == Len(statement.lookups)
        candidates(j) == LookupCandidates(database, statement, statement.lookups[j], t)
        choices == {f \in [1..n -> UNION {candidates(j) : j \in 1..n}] :
                       \A j \in 1..n : f[j] \in candidates(j)}
        lookup_of(c) == CHOOSE j \in 1..n : statement.lookups[j].target_column = c
    IN  {[c \in DOMAIN t |->
            IF \E j \in 1..n : statement.lookups[j].target_column = c
            THEN f[lookup_of(c)] ELSE t[c]] : f \in choices}

\* the databases an accepted UPDATE can leave behind
ServerUpdate(database, statement) ==
    LET rows == database.staging[statement.table].rows
        outcomes == {rs \in [1..Len(rows) ->
                               UNION {UpdatedRows(database, statement, rows[i]) :
                                         i \in 1..Len(rows)}] :
                        \A i \in 1..Len(rows) :
                            rs[i] \in UpdatedRows(database, statement, rows[i])}
    IN  {[database EXCEPT !.staging[statement.table].rows = rs] : rs \in outcomes}

\* ON of the MERGE for target row t and staging row s
MergeMatches(statement, t, s) ==
    \A k \in 1..Len(statement.on_key_columns) :
        SqlEquals(t[statement.on_key_columns[k].key_column],
                  s[statement.on_key_columns[k].column])

\* the MERGE is accepted when its text is a statement (one search
\* condition, non-empty lists, no column assigned twice, as many values as
\* columns), names only columns that exist, and no target row is matched by
\* two staging rows
MergeAccepted(database, statement) ==
    /\ statement.table \in DOMAIN database.staging
    /\ Len(statement.on_key_columns) = 1
    /\ statement.set_update_columns # <<>>
    /\ statement.insert_columns_target # <<>>
    /\ Len(statement.insert_columns_target) = Len(statement.insert_columns_temporary)
    /\ ~HasDuplicates([k \in 1..Len(statement.set_update_columns) |->
                          statement.set_update_columns[k].target_column])
    /\ ~HasDuplicates(statement.insert_columns_target)
    /\ \A k \in 1..Len(statement.on_key_columns) :
           statement.on_key_columns[k].key_column \in RowColumns(statement.target_table)
    /\ \A k \in 1..Len(statement.set_update_columns) :
           statement.set_update_columns[k].target_column \in RowColumns(statement.target_table)
    /\ Range(statement.insert_columns_target) \subseteq RowColumns(statement.target_table)
    /\ LET staging == database.staging[statement.table]
           target == database.tables[statement.target_table]
       IN  /\ \A k \in 1..Len(statement.on_key_columns) :
                  statement.on_key_columns[k].column \in ColumnNames(staging)
           /\ \A k \in 1..Len(statement.set_update_columns) :
                  statement.set_update_columns[k].temporary_column \in ColumnNames(staging)
           /\ Range(statement.insert_columns_temporary) \subseteq ColumnNames(staging)
           /\ \A t \in 1..Len(target) : \A s1, s2 \in 1..Len(staging.rows) :
                  (MergeMatches(statement, target[t], staging.rows[s1])
                     /\ MergeMatches(statement, target[t], staging.rows[s2])) => s1 = s2

\* WHEN MATCHED THEN UPDATE SET ...; WHEN NOT MATCHED BY TARGET THEN INSERT
ServerMerge(database, statement) ==
    LET staging == database.staging[statement.table].rows
        target == database.tables[statement.target_table]
        source_of(t) == CHOOSE s \in 1..Len(staging) : MergeMatches(statement, target[t], staging[s])
        assigned(c) == CHOOSE k \in 1..Len(statement.set_update_columns) :
                           statement.set_update_columns[k].target_column = c
        updated == [t \in 1..Len(target) |->
            IF \E s \in 1..Len(staging) : MergeMatches(statement, target[t], staging[s])
            THEN [c \in DOMAIN target[t] |->
                    IF \E k \in 1..Len(statement.set_update_columns) :
                          statement.set_update_columns[k].target_column = c
                    THEN staging[source_of(t)][
                             statement.set_update_columns[assigned(c)].temporary_column]
                    ELSE target[t][c]]
            ELSE target[t]]
        unmatched == FilterSeq(staging, [s \in 1..Len(staging) |->
                        \A t \in 1..Len(target) : ~MergeMatches(statement, target[t], staging[s])])
        listed(c) == CHOOSE k \in 1..Len(statement.insert_columns_target) :
                        statement.insert_columns_target[k] = c
        inserted == [s \in 1..Len(unmatched) |->
            [c \in RowColumns(statement.target_table) |->
                IF c \in Range(statement.insert_columns_target)
                THEN unmatched[s][statement.insert_columns_temporary[listed(c)]]
                ELSE Null]]
    IN  [database EXCEPT !.tables[statement.target_table] = updated \o inserted]

(***************************************************************************)
(* The import profiles and inputs of the model                             *)
(***************************************************************************)
\* the profile of currencies_import_profile (tests/examples.rs)
CurrenciesMapper ==
    TableMapper("Currencies", "Currency",
        <<ParserColumn(Col("Currency", "Code"), TRUE, "Code"),
          ParserColumn(Col("Currency", "Name"), TRUE, "Name")>>,
        <<Col("Currency", "Code")>>)

CountryLookup ==
    LookupColumn(Col("Company", "CountryID"), TRUE, "Country", Col("Country", "ID"),
                 <<ParserKeyColumn(Col("Country", "Code"), "Country")>>)

\* the profile of companies_import_profile (tests/examples.rs)
CompaniesMapper ==
    TableMapper("Companies", "Company",
        <<ParserColumn(Col("Company", "Code"), TRUE, "Code"),
          ParserColumn(Col("Company", "Name"), TRUE, "Name"),
          CountryLookup>>,
        <<Col("Company", "Code")>>)

\* a second lookup keyed from the first one through a processed key
PeersMapper ==
    TableMapper("Peers", "Company",
        <<ParserColumn(Col("Company", "Code"), TRUE, "Code"),
          CountryLookup,
          LookupColumn(Col("Company", "Peer"), TRUE, "Company", Col("Company", "Code"),
                       <<ProcessedKeyColumn(Col("Company", "CountryID"),
                                            Col("Company", "CountryID"))>>)>>,
        <<Col("Company", "Code")>>)

\* a Static column next to a Parser column
StaticMapper ==
    TableMapper("Static", "Currency",
        <<ParserColumn(Col("Currency", "Code"), TRUE, "Code"),
          StaticColumn(Col("Currency", "Name"), TRUE, "fixed")>>,
        <<Col("Currency", "Code")>>)

\* columns of the numeric, bit and decimal types
ProductsMapper ==
    TableMapper("Products", "Product",
        <<ParserColumn(Col("Product", "Code"), TRUE, "Code"),
          ParserColumn(Col("Product", "Stock"), TRUE, "Stock"),
          ParserColumn(Col("Product", "Active"), TRUE, "Active"),
          ParserColumn(Col("Product", "Price"), TRUE, "Price")>>,
        <<Col("Product", "Code")>>)

\* the identity column of the target table among the mapped columns
ProductIdsMapper ==
    TableMapper("ProductIds", "Product",
        <<ParserColumn(Col("Product", "Code"), TRUE, "Code"),
          ParserColumn(Col("Product", "ID"), TRUE, "ID"),
          ParserColumn(Col("Product", "Price"), TRUE, "Price")>>,
        <<Col("Product", "Code")>>)

\* a column of a type that process_record has no cell for
NotesMapper ==
    TableMapper("Notes", "Product",
        <<ParserColumn(Col("Product", "Code"), TRUE, "Code"),
          ParserColumn(Col("Product", "Notes"), TRUE, "Notes")>>,
        <<Col("Product", "Code")>>)

\* a key column that is read from the source and not mapped to the target
UnmappedKeyMapper ==
    TableMapper("UnmappedKey", "Currency",
        <<ParserColumn(Col("Currency", "Code"), FALSE, "Code"),
          ParserColumn(Col("Currency", "Name"), TRUE, "Name")>>,
        <<Col("Currency", "Code")>>)

\* a lookup into a column of the target table that is not nullable
CheckedCodesMapper ==
    TableMapper("CheckedCodes", "Currency",
        <<ParserColumn(Col("Currency", "Name"), TRUE, "Name"),
          LookupColumn(Col("Currency", "Code"), TRUE, "Country", Col("Country", "Code"),
                       <<ParserKeyColumn(Col("Country", "Code"), "Code")>>)>>,
        <<Col("Currency", "Name")>>)

\* two columns kept in the staging table only: the target table has no
\* column Symbol and no column Region
StagingOnlyMapper ==
    TableMapper("StagingOnly", "Currency",
        <<ParserColumn(Col("Currency", "Code"), TRUE, "Code"),
          ParserColumn(Col("Currency", "Name"), TRUE, "Name"),
          ParserColumn(Col("Currency", "Symbol"), FALSE, "Name"),
          LookupColumn(Col("Currency", "Region"), FALSE, "Country", Col("Country", "Code"),
                       <<ParserKeyColumn(Col("Country", "Code"), "Code")>>)>>,
        <<Col("Currency", "Code")>>)

\* a Lookup column without key columns next to a Parser column
KeylessLookupMapper ==
    TableMapper("KeylessLookup", "Company",
        <<ParserColumn(Col("Company", "Code"), TRUE, "Code"),
          LookupColumn(Col("Company", "CountryID"), TRUE, "Country", Col("Country", "ID"),
                       <<>>)>>,
        <<Col("Company", "Code")>>)

\* a lookup keyed by the column it fills
CycleMapper ==
    TableMapper("Cycle", "Company",
        <<ParserColumn(Col("Company", "Code"), TRUE, "Code"),
          LookupColumn(Col("Company", "CountryID"), TRUE, "Company", Col("Company", "Code"),
                       <<ProcessedKeyColumn(Col("Company", "CountryID"),
                                            Col("Company", "CountryID"))>>)>>,
        <<Col("Company", "Code")>>)

\* a processed key that names no column of the mapper
UnknownTargetMapper ==
    TableMapper("UnknownTarget", "Company",
        <<ParserColumn(Col("Company", "Code"), TRUE, "Code"),
          LookupColumn(Col("Company", "CountryID"), TRUE, "Country", Col("Country", "ID"),
                       <<ProcessedKeyColumn(Col("Country", "Code"),
                                            Col("Country", "Code"))>>)>>,
        <<Col("Company", "Code")>>)

ImportProfiles ==
    {<<CurrenciesMapper, CompaniesMapper>>, <<PeersMapper>>, <<StaticMapper>>,
     <<ProductsMapper>>, <<ProductIdsMapper>>, <<NotesMapper>>, <<UnmappedKeyMapper>>,
     <<CheckedCodesMapper>>, <<StagingOnlyMapper>>, <<KeylessLookupMapper>>,
     <<CycleMapper>>, <<NotesMapper, UnknownTargetMapper>>}

\* no_merge requires no_drop (import_options.rs)
ImportOptionsSet ==
    {o \in [no_merge : BOOLEAN, no_drop : BOOLEAN, no_duplicate_optimization : {FALSE}] :
        o.no_merge => o.no_drop}

\* the records the data source of a table mapper can deliver: every table
\* mapper has a data source of its own
CurrencyRecords ==
    {[Code |-> "EUR", Name |-> "Euro"],
     [Code |-> "GBP", Name |-> "Pound"]}

CompanyRecords ==
    {[Code |-> "MSFT", Name |-> "MS", Country |-> "FR"],
     [Code |-> "NVDA", Name |-> "NVIDIA", Country |-> "DE"],
     [Code |-> "NVDA", Name |-> "NV", Country |-> "XX"],
     [Code |-> "MSFT", Name |-> "MS"]}

ProductRecords ==
    {[Code |-> "P1", ID |-> "1", Stock |-> "7", Active |-> "true", Price |-> "9.50",
      Notes |-> "<n/>"],
     [Code |-> "P2", ID |-> "2", Stock |-> "300", Active |-> "yes", Price |-> "n/a",
      Notes |-> "<n/>"],
     [Code |-> "P3", ID |-> "x", Stock |-> "-1", Active |-> "false", Price |-> "7"]}

SourceRecords(mapper) ==
    IF mapper.table_identifier = "Currency" THEN CurrencyRecords
    ELSE IF mapper.table_identifier = "Product" THEN ProductRecords
    ELSE CompanyRecords

\* the number of items pulled from one data source
MaxRecords == 2

(***************************************************************************)
(* import_executor.rs: the state                                           *)
(***************************************************************************)
VARIABLES
    import_profile,    \* the table mappers, in declaration order
    import_options,
    pc,                \* the await the executor is at
    table_metadata,
    mapper_index,      \* position of the for loop over table_mappers()
    column_graph,
    temporary_table,
    group_index,       \* position of the for loop over column_graph.groups()
    record,            \* the record handed to process_record
    pulled,            \* items taken from data_source so far
    insert_error,
    result,            \* what execute_table_mapper returned
    returned,          \* what import_executor returned
    bulk_insert,       \* the open BulkLoadRequest
    database,
    log,               \* the statements sent to the server, in order
    source_records,    \* the records of the data source of a compared run
    graph_optimized,   \* ColumnGraph::new with duplicate optimization
    graph_plain,       \* ColumnGraph::new with no_duplicate_optimization
    tables_optimized,  \* the tables a run on graph_optimized can leave behind
    tables_plain,      \* the tables a run on graph_plain can leave behind
    file,              \* the source file and how the data source is configured
    stream,            \* the DelimitedDataSource or XmlDataSource object
    stream_pc,         \* "new", "ready", "ended", "failed" or "panicked"
    items,             \* the items the data source has yielded, in order
    delivered,         \* the items the stream of prepare_stream has yielded
    identifier_kind,   \* the identifier type a text is parsed as
    identifier_text,   \* the text given to from_str
    identifiers        \* what from_str returned for the text, then for its full()

\* the two builds of one column graph and their runs, side by side
comparison_vars ==
    <<source_records, graph_optimized, graph_plain, tables_optimized, tables_plain>>

\* a data source read on its own
source_vars == <<file, stream, stream_pc, items, delivered>>

\* an identifier parsed on its own
identifier_vars == <<identifier_kind, identifier_text, identifiers>>

vars == <<import_profile, import_options, pc, table_metadata, mapper_index, column_graph,
          temporary_table, group_index, record, pulled, insert_error, result, returned,
          bulk_insert, database, log, comparison_vars, source_vars, identifier_vars>>

executor_vars == <<pc, mapper_index, column_graph, temporary_table, group_index, record,
                   pulled, insert_error, result, returned, bulk_insert, database, log>>

profile_vars == <<import_profile, import_options, table_metadata, comparison_vars,
                  source_vars, identifier_vars>>

Ok == [ok |-> TRUE]

Err(kind) == [ok |-> FALSE, error |-> kind]

table_mapper == import_profile[mapper_index]

\* a statement as the server sees it: the mapper it belongs to, whether the
\* server accepted it, the group of an UPDATE, the record of a bulk row
Statement(op, ok, group) ==
    [op |-> op, mapper |-> mapper_index, ok |-> ok, group |-> group, input |-> None]

Init ==
    /\ import_profile \in ImportProfiles
    /\ import_options \in ImportOptionsSet
    /\ pc = "table_metadata"
    /\ table_metadata = None
    /\ mapper_index = 0
    /\ column_graph = None
    /\ temporary_table = None
    /\ group_index = 0
    /\ record = None
    /\ pulled = 0
    /\ insert_error = None
    /\ result = None
    /\ returned = None
    /\ bulk_insert = None
    /\ database = InitialDatabase
    /\ log = <<>>
    /\ source_records = <<>>
    /\ graph_optimized = None
    /\ graph_plain = None
    /\ tables_optimized = None
    /\ tables_plain = None
    /\ file = None
    /\ stream = None
    /\ stream_pc = "idle"
    /\ items = <<>>
    /\ delivered = <<>>
    /\ identifier_kind = None
    /\ identifier_text = <<>>
    /\ identifiers = <<>>

(***************************************************************************)
(* import_executor.rs: the steps, one per await                            *)
(***************************************************************************)
\* the tables named by the profile: the targets and the lookup tables
TableNames ==
    UNION {{import_profile[m].table_identifier}
           \cup {import_profile[m].columns[k].table_identifier :
                    k \in {j \in 1..Len(import_profile[m].columns) :
                              import_profile[m].columns[j].kind = "Lookup"}}
           : m \in 1..Len(import_profile)}

Return(value) ==
    /\ returned' = value
    /\ pc' = "done"

\* a loop that treats every group after the first as the end of the groups
EnterGroupSkipsUpdates(cg, g) ==
    /\ group_index' = g
    /\ pc' = IF g = 1 THEN "insert_processor" ELSE "merge"

\* the head of the for loop over column_graph.groups()
EnterGroup(cg, g) ==
    /\ group_index' = g
    /\ pc' = IF g > Len(cg.groups) THEN "merge"
             ELSE IF g = 1 THEN "insert_processor" ELSE "update"

\* client.column_metadata(table, ["*"]) for every table name
FetchTableMetadata ==
    /\ pc = "table_metadata"
    /\ \E ok \in BOOLEAN :
        IF ok
        THEN /\ table_metadata' = [t \in TableNames |-> ServerMetadata[t]]
             /\ mapper_index' = 1
             /\ pc' = "create_data_source"
             /\ UNCHANGED returned
        ELSE /\ Return(Err("TableMetadataRetrievalFailed"))
             /\ UNCHANGED <<table_metadata, mapper_index>>
    /\ UNCHANGED <<import_profile, import_options, column_graph, temporary_table, group_index,
                   record, pulled, insert_error, result, bulk_insert, database, log,
                   comparison_vars, source_vars, identifier_vars>>

\* a creation that has the staging table made before the source is opened, so
\* that a source that cannot be created leaves a CREATE behind
CreateDataSourceAfterCreate ==
    /\ pc = "create_data_source"
    /\ \E ok \in BOOLEAN :
        IF ok
        THEN /\ pulled' = 0
             /\ pc' = "column_graph"
             /\ UNCHANGED <<returned, log>>
        ELSE /\ log' = Append(log, Statement("CREATE", TRUE, 0))
             /\ Return(Err("CreateDataSource"))
             /\ UNCHANGED pulled
    /\ UNCHANGED <<profile_vars, mapper_index, column_graph, temporary_table, group_index,
                   record, insert_error, result, bulk_insert, database>>

\* data_source_config.create_data_source(table_mapper, &import_options)
CreateDataSource ==
    /\ pc = "create_data_source"
    /\ \E ok \in BOOLEAN :
        IF ok
        THEN /\ pulled' = 0
             /\ pc' = "column_graph"
             /\ UNCHANGED returned
        ELSE /\ Return(Err("CreateDataSource"))
             /\ UNCHANGED pulled
    /\ UNCHANGED <<profile_vars, mapper_index, column_graph, temporary_table, group_index,
                   record, insert_error, result, bulk_insert, database, log>>

\* the ? after ColumnGraph::new
ColumnGraphCreated(cg) ==
    IF cg.ok
    THEN /\ column_graph' = cg
         /\ pc' = "temporary_table"
         /\ UNCHANGED returned
    ELSE /\ Return([ok |-> FALSE, error |-> "CreateColumnGraph", source |-> cg.error])
         /\ UNCHANGED column_graph

\* ColumnGraph::new(table_mapper, &table_metadata, &import_options)
NewColumnGraph ==
    /\ pc = "column_graph"
    /\ ColumnGraphCreated(ColumnGraphNew(table_mapper, table_metadata, import_options))
    /\ UNCHANGED <<profile_vars, mapper_index, temporary_table, group_index, record, pulled,
                   insert_error, result, bulk_insert, database, log>>

\* TemporaryTable::new(client, table_mapper.identifier(), &column_graph)
NewTemporaryTable ==
    /\ pc = "temporary_table"
    /\ LET columns == TemporaryTableColumns(column_graph)
           name == TemporaryTableIdentifier(table_mapper.table_identifier)
       IN  IF columns = <<>>
           THEN /\ Return([ok |-> FALSE, error |-> "CreateTemporaryTable",
                           source |-> "NoNonTransientColumns"])
                /\ UNCHANGED <<temporary_table, group_index, insert_error, result, database, log>>
           ELSE \E ok \in BOOLEAN :
                IF ok
                THEN /\ database' = ServerCreateTable(database, name, columns)
                     /\ log' = Append(log, Statement("CREATE", TRUE, 0))
                     /\ temporary_table' = name
                     /\ insert_error' = None
                     /\ result' = None
                     /\ EnterGroup(column_graph, 1)
                     /\ UNCHANGED returned
                ELSE /\ log' = Append(log, Statement("CREATE", FALSE, 0))
                     /\ Return([ok |-> FALSE, error |-> "CreateTemporaryTable",
                                source |-> "CreateTableFailed"])
                     /\ UNCHANGED <<temporary_table, group_index, insert_error, result, database>>
    /\ UNCHANGED <<profile_vars, mapper_index, column_graph, record, pulled, bulk_insert>>

\* InsertProcessor::new(client, temporary_table, group)
NewInsertProcessor ==
    /\ pc = "insert_processor"
    /\ IF InsertProcessorUnreachable(column_graph)
       THEN /\ pc' = "panic"
            /\ UNCHANGED <<bulk_insert, result, log>>
       ELSE \E ok \in BOOLEAN :
            IF ok
            THEN /\ bulk_insert' =
                        [columns |-> [k \in 1..Len(InsertTargetColumns(column_graph)) |->
                                         column_graph.unique_identifiers[
                                             InsertTargetColumns(column_graph)[k]]],
                         rows |-> <<>>]
                 /\ log' = Append(log, Statement("BULK_OPEN", TRUE, 0))
                 /\ pc' = "next_record"
                 /\ UNCHANGED result
            ELSE /\ log' = Append(log, Statement("BULK_OPEN", FALSE, 0))
                 /\ result' = Err("CreateInsertProcessor")
                 /\ pc' = "finalize_temporary_table"
                 /\ UNCHANGED bulk_insert
    /\ UNCHANGED <<profile_vars, mapper_index, column_graph, temporary_table, group_index,
                   record, pulled, insert_error, returned, database>>

\* data_source.next().await in the insert loop
NextRecord ==
    /\ pc = "next_record"
    /\ \/ /\ pulled < MaxRecords
          /\ \E r \in SourceRecords(table_mapper) :
                /\ record' = r
                /\ pulled' = pulled + 1
                /\ pc' = "process_record"
                /\ UNCHANGED insert_error
       \/ /\ pulled < MaxRecords
          /\ insert_error' = Err("ReadRecordFailed")
          /\ pulled' = pulled + 1
          /\ pc' = "finalize_insert"
          /\ UNCHANGED record
       \/ /\ pc' = "finalize_insert"
          /\ UNCHANGED <<record, pulled, insert_error>>
    /\ UNCHANGED <<profile_vars, mapper_index, column_graph, temporary_table, group_index,
                   result, returned, bulk_insert, database, log>>

\* what the insert loop does with the outcome of process_record
RecordProcessed(outcome) ==
    IF outcome.outcome = "panic"
    THEN /\ pc' = "panic"
         /\ UNCHANGED <<insert_error, bulk_insert, log>>
    ELSE IF outcome.outcome = "RecordMissingField"
    THEN /\ insert_error' = [ok |-> FALSE, error |-> "ExecuteRecordFailed",
                             source |-> "RecordMissingField"]
         /\ pc' = "finalize_insert"
         /\ UNCHANGED <<bulk_insert, log>>
    ELSE \E ok \in BOOLEAN :
         IF ok
         THEN /\ bulk_insert' = [bulk_insert EXCEPT !.rows = Append(@, outcome.row)]
              /\ log' = Append(log, [Statement("BULK_ROW", TRUE, 0) EXCEPT !.input = record])
              /\ pc' = "next_record"
              /\ UNCHANGED insert_error
         ELSE /\ log' = Append(log, [Statement("BULK_ROW", FALSE, 0) EXCEPT !.input = record])
              /\ insert_error' = [ok |-> FALSE, error |-> "ExecuteRecordFailed",
                                  source |-> "SendRowFailed"]
              /\ pc' = "finalize_insert"
              /\ UNCHANGED bulk_insert

\* insert_processor.process_record(record).await
ProcessRecord ==
    /\ pc = "process_record"
    /\ RecordProcessed(process_record(column_graph, record))
    /\ UNCHANGED <<profile_vars, mapper_index, column_graph, temporary_table, group_index,
                   record, pulled, result, returned, database>>

\* a finalize that forgets the error of the insert loop
FinalizeInsertProcessorDropsError ==
    /\ pc = "finalize_insert"
    /\ \E ok \in BOOLEAN :
        IF ok
        THEN /\ database' = ServerBulkLoad(database, temporary_table,
                                           bulk_insert.columns, bulk_insert.rows)
             /\ log' = Append(log, Statement("BULK_FINALIZE", TRUE, 0))
             /\ EnterGroup(column_graph, group_index + 1)
             /\ UNCHANGED result
        ELSE /\ log' = Append(log, Statement("BULK_FINALIZE", FALSE, 0))
             /\ result' = Err("FinalizeInsertProcessor")
             /\ pc' = "finalize_temporary_table"
             /\ UNCHANGED <<database, group_index>>
    /\ bulk_insert' = None
    /\ UNCHANGED <<profile_vars, mapper_index, column_graph, temporary_table, record, pulled,
                   insert_error, returned>>

\* insert_processor.finalize().await? and the return of insert_error
FinalizeInsertProcessor ==
    /\ pc = "finalize_insert"
    /\ \E ok \in BOOLEAN :
        IF ok
        THEN /\ database' = ServerBulkLoad(database, temporary_table,
                                           bulk_insert.columns, bulk_insert.rows)
             /\ log' = Append(log, Statement("BULK_FINALIZE", TRUE, 0))
             /\ IF insert_error # None
                THEN /\ result' = insert_error
                     /\ pc' = "finalize_temporary_table"
                     /\ UNCHANGED group_index
                ELSE /\ EnterGroup(column_graph, group_index + 1)
                     /\ UNCHANGED result
        ELSE /\ log' = Append(log, Statement("BULK_FINALIZE", FALSE, 0))
             /\ result' = Err("FinalizeInsertProcessor")
             /\ pc' = "finalize_temporary_table"
             /\ UNCHANGED <<database, group_index>>
    /\ bulk_insert' = None
    /\ UNCHANGED <<profile_vars, mapper_index, column_graph, temporary_table, record, pulled,
                   insert_error, returned>>

\* the client.execute of update_processor::execute and the ? after it
ExecuteUpdate(statement) ==
    IF statement.kind = "panic"
    THEN /\ pc' = "panic"
         /\ UNCHANGED <<group_index, result, database, log>>
    ELSE IF statement.kind = "none"
    THEN /\ EnterGroup(column_graph, group_index + 1)
         /\ UNCHANGED <<result, database, log>>
    ELSE \/ /\ UpdateAccepted(database, statement)
            /\ database' \in ServerUpdate(database, statement)
            /\ log' = Append(log, Statement("UPDATE", TRUE, group_index - 1))
            /\ EnterGroup(column_graph, group_index + 1)
            /\ UNCHANGED result
         \/ /\ log' = Append(log, Statement("UPDATE", FALSE, group_index - 1))
            /\ result' = Err("UpdateProcessor")
            /\ pc' = "finalize_temporary_table"
            /\ UNCHANGED <<group_index, database>>

\* update_processor::execute(client, temporary_table, group, column_graph)
UpdateProcessor ==
    /\ pc = "update"
    /\ ExecuteUpdate(UpdateStatement(column_graph, temporary_table,
                                     column_graph.groups[group_index]))
    /\ UNCHANGED <<profile_vars, mapper_index, column_graph, temporary_table, record, pulled,
                   insert_error, returned, bulk_insert>>

\* the client.execute of merge_processor::execute and the ? after it
ExecuteMerge(statement) ==
    IF statement.kind = "KeyColumnUnknownTargetColumn"
    THEN /\ result' = [ok |-> FALSE, error |-> "MergeProcessor",
                       source |-> "KeyColumnUnknownTargetColumn"]
         /\ UNCHANGED <<database, log>>
    ELSE \/ /\ MergeAccepted(database, statement)
            /\ database' = ServerMerge(database, statement)
            /\ log' = Append(log, Statement("MERGE", TRUE, 0))
            /\ result' = Ok
         \/ /\ log' = Append(log, Statement("MERGE", FALSE, 0))
            /\ result' = [ok |-> FALSE, error |-> "MergeProcessor", source |-> "MergeFailed"]
            /\ UNCHANGED database

\* merge_processor::execute(client, target, staging, key_columns, target_columns)
MergeProcessor ==
    /\ pc = "merge"
    /\ ExecuteMerge(MergeStatement(column_graph, table_mapper.table_identifier,
                                   temporary_table, table_mapper.key_columns))
    /\ pc' = "finalize_temporary_table"
    /\ UNCHANGED <<profile_vars, mapper_index, column_graph, temporary_table, group_index,
                   record, pulled, insert_error, returned, bulk_insert>>

\* a loop that looks at the result of the last table mapper only
AfterFinalizeContinues ==
    IF mapper_index < Len(import_profile)
    THEN /\ mapper_index' = mapper_index + 1
         /\ pc' = "create_data_source"
         /\ UNCHANGED returned
    ELSE IF ~result.ok
    THEN /\ Return([ok |-> FALSE, error |-> "ExecuteTableMapper", source |-> result])
         /\ UNCHANGED mapper_index
    ELSE /\ Return(Ok)
         /\ UNCHANGED mapper_index

\* what follows temporary_table.finalize() when it did not fail: the error
\* of the mapper is returned, or the loop goes to the next table mapper
AfterFinalize ==
    IF ~result.ok
    THEN /\ Return([ok |-> FALSE, error |-> "ExecuteTableMapper", source |-> result])
         /\ UNCHANGED mapper_index
    ELSE IF mapper_index = Len(import_profile)
    THEN /\ Return(Ok)
         /\ UNCHANGED mapper_index
    ELSE /\ mapper_index' = mapper_index + 1
         /\ pc' = "create_data_source"
         /\ UNCHANGED returned

\* a finalize that is reached only when the table mapper succeeded
FinalizeTemporaryTableOnSuccessOnly ==
    /\ pc = "finalize_temporary_table"
    /\ IF ~import_options.no_drop /\ result.ok
       THEN \E ok \in BOOLEAN :
            IF ok
            THEN /\ database' = ServerDropTable(database, temporary_table)
                 /\ log' = Append(log, Statement("DROP", TRUE, 0))
                 /\ AfterFinalize
            ELSE /\ log' = Append(log, Statement("DROP", FALSE, 0))
                 /\ Return(Err("FinalizeTemporaryTable"))
                 /\ UNCHANGED <<database, mapper_index>>
       ELSE /\ AfterFinalize
            /\ UNCHANGED <<database, log>>
    /\ UNCHANGED <<profile_vars, column_graph, temporary_table, group_index, record, pulled,
                   insert_error, result, bulk_insert>>

\* temporary_table.finalize(client, &import_options) and the two ifs after it
FinalizeTemporaryTable ==
    /\ pc = "finalize_temporary_table"
    /\ IF ~import_options.no_drop
       THEN \E ok \in BOOLEAN :
            IF ok
            THEN /\ database' = ServerDropTable(database, temporary_table)
                 /\ log' = Append(log, Statement("DROP", TRUE, 0))
                 /\ AfterFinalize
            ELSE /\ log' = Append(log, Statement("DROP", FALSE, 0))
                 /\ Return(Err("FinalizeTemporaryTable"))
                 /\ UNCHANGED <<database, mapper_index>>
       ELSE /\ AfterFinalize
            /\ UNCHANGED <<database, log>>
    /\ UNCHANGED <<profile_vars, column_graph, temporary_table, group_index, record, pulled,
                   insert_error, result, bulk_insert>>

Next ==
    \/ FetchTableMetadata
    \/ CreateDataSource
    \/ NewColumnGraph
    \/ NewTemporaryTable
    \/ NewInsertProcessor
    \/ NextRecord
    \/ ProcessRecord
    \/ FinalizeInsertProcessor
    \/ UpdateProcessor
    \/ MergeProcessor
    \/ FinalizeTemporaryTable

Spec == Init /\ [][Next]_vars

(***************************************************************************)
(* The same table mapper under both settings of no_duplicate_optimization: *)
(* ColumnGraph::new is called once with the optimization and once without, *)
(* and execute_table_mapper runs on each graph against a server that       *)
(* accepts every statement that is valid.                                  *)
(***************************************************************************)
\* two lookups from the same source field: their key nodes are duplicates
TwoLookupsMapper ==
    TableMapper("TwoLookups", "Company",
        <<ParserColumn(Col("Company", "Code"), TRUE, "Code"),
          CountryLookup,
          LookupColumn(Col("Company", "Peer"), TRUE, "Country", Col("Country", "Code"),
                       <<ParserKeyColumn(Col("Country", "Code"), "Country")>>)>>,
        <<Col("Company", "Code")>>)

\* a column that is declared twice
DeclaredTwiceMapper ==
    TableMapper("DeclaredTwice", "Company",
        <<ParserColumn(Col("Company", "Code"), TRUE, "Code"),
          ParserColumn(Col("Company", "Name"), TRUE, "Name"),
          ParserColumn(Col("Company", "Name"), TRUE, "Name")>>,
        <<Col("Company", "Code")>>)

\* a lookup that is declared twice
LookupTwiceMapper ==
    TableMapper("LookupTwice", "Company",
        <<ParserColumn(Col("Company", "Code"), TRUE, "Code"),
          CountryLookup,
          CountryLookup>>,
        <<Col("Company", "Code")>>)

\* a processed key whose lookup-table key column is not the mapper column
\* it is keyed from: the country code of the row's CountryID
KeyedFromMapper ==
    TableMapper("KeyedFrom", "Company",
        <<ParserColumn(Col("Company", "Code"), TRUE, "Code"),
          CountryLookup,
          LookupColumn(Col("Company", "Peer"), TRUE, "Country", Col("Country", "Code"),
                       <<ProcessedKeyColumn(Col("Country", "ID"),
                                            Col("Company", "CountryID"))>>)>>,
        <<Col("Company", "Code")>>)

\* two lookups keyed by each other, and a third one keyed by the second
LongCycleMapper ==
    TableMapper("LongCycle", "Company",
        <<ParserColumn(Col("Company", "Code"), TRUE, "Code"),
          LookupColumn(Col("Company", "CountryID"), TRUE, "Company",
                       Col("Company", "CountryID"),
                       <<ProcessedKeyColumn(Col("Company", "Peer"),
                                            Col("Company", "Peer"))>>),
          LookupColumn(Col("Company", "Peer"), TRUE, "Company", Col("Company", "Peer"),
                       <<ProcessedKeyColumn(Col("Company", "CountryID"),
                                            Col("Company", "CountryID"))>>),
          LookupColumn(Col("Company", "Name"), TRUE, "Company", Col("Company", "Name"),
                       <<ProcessedKeyColumn(Col("Company", "Peer"),
                                            Col("Company", "Peer"))>>)>>,
        <<Col("Company", "Code")>>)

\* one source field mapped to two target columns
SameFieldMapper ==
    TableMapper("SameField", "Company",
        <<ParserColumn(Col("Company", "Code"), TRUE, "Code"),
          ParserColumn(Col("Company", "Name"), TRUE, "Name"),
          ParserColumn(Col("Company", "Peer"), TRUE, "Name")>>,
        <<Col("Company", "Code")>>)

\* a lookup declared twice, and a lookup with a processed key that finds it
\* next to a parser key: the two key nodes lie in different groups
MixedKeysMapper ==
    TableMapper("MixedKeys", "Company",
        <<ParserColumn(Col("Company", "Code"), TRUE, "Code"),
          CountryLookup,
          CountryLookup,
          LookupColumn(Col("Company", "Peer"), TRUE, "Company", Col("Company", "Code"),
                       <<ProcessedKeyColumn(Col("Company", "CountryID"),
                                            Col("Company", "CountryID")),
                         ParserKeyColumn(Col("Company", "Name"), "Name")>>)>>,
        <<Col("Company", "Code")>>)

\* a column declared twice, once with map and once without
MapTwiceMapper ==
    TableMapper("MapTwice", "Company",
        <<ParserColumn(Col("Company", "Code"), TRUE, "Code"),
          ParserColumn(Col("Company", "Name"), FALSE, "Name"),
          ParserColumn(Col("Company", "Name"), TRUE, "Name")>>,
        <<Col("Company", "Code")>>)

\* a column whose name ends in _<digits>, next to the column of that name
\* without the ending, at the index that the ending names
SuffixedMapper ==
    TableMapper("Suffixed", "Company",
        <<ParserColumn(Col("Company", "Code"), TRUE, "Code"),
          ParserColumn(Col("Company", "Name_2"), FALSE, "Country"),
          ParserColumn(Col("Company", "Name"), TRUE, "Name")>>,
        <<Col("Company", "Code")>>)

\* a lookup keyed by a processed key that finds a Static column
StaticKeyMapper ==
    TableMapper("StaticKey", "Company",
        <<ParserColumn(Col("Company", "Code"), TRUE, "Code"),
          StaticColumn(Col("Company", "Name"), FALSE, "Microsoft"),
          LookupColumn(Col("Company", "Peer"), TRUE, "Company", Col("Company", "Code"),
                       <<ProcessedKeyColumn(Col("Company", "Name"),
                                            Col("Company", "Name"))>>)>>,
        <<Col("Company", "Code")>>)

ComparedMappers ==
    {CompaniesMapper, PeersMapper, TwoLookupsMapper, DeclaredTwiceMapper, LookupTwiceMapper,
     CycleMapper, UnknownTargetMapper, StaticMapper, SameFieldMapper, KeyedFromMapper,
     LongCycleMapper, MixedKeysMapper, MapTwiceMapper, SuffixedMapper, StaticKeyMapper}

\* the sequences of at most n records of a data source
RecordSequences(records, n) ==
    UNION {[1..k -> records] : k \in 0..n}

\* the insert loop of execute_table_mapper when the server accepts every
\* row: the rows sent, or the stop at the first record that fails
RECURSIVE InsertLoop(_, _, _)
InsertLoop(cg, records, rows) ==
    IF records = <<>> THEN [ok |-> TRUE, rows |-> rows]
    ELSE LET outcome == process_record(cg, Head(records))
         IN  IF outcome.outcome # "row" THEN [ok |-> FALSE, outcome |-> outcome.outcome]
             ELSE InsertLoop(cg, Tail(records), Append(rows, outcome.row))

\* update_processor::execute on every one of the databases: none is left
\* when the UPDATE fails
ApplyUpdate(statement, databases) ==
    IF statement.kind = "panic" THEN {}
    ELSE IF statement.kind = "none" THEN databases
    ELSE UNION {IF UpdateAccepted(d, statement) THEN ServerUpdate(d, statement) ELSE {} :
                   d \in databases}

\* the else branch of the loop over the groups, from group g on: the
\* databases the UPDATEs can leave behind
RECURSIVE UpdateLoop(_, _, _, _)
UpdateLoop(cg, temporary, g, databases) ==
    IF g > Len(cg.groups) THEN databases
    ELSE UpdateLoop(cg, temporary, g + 1,
                    ApplyUpdate(UpdateStatement(cg, temporary, cg.groups[g]), databases))

\* TemporaryTable::new and the first branch of the loop over the groups:
\* the database with the staged rows, none when a record failed
StagedDatabases(cg, temporary, inserted) ==
    IF ~inserted.ok THEN {}
    ELSE {ServerBulkLoad(
              ServerCreateTable(InitialDatabase, temporary, TemporaryTableColumns(cg)),
              temporary,
              [k \in 1..Len(InsertTargetColumns(cg)) |->
                  cg.unique_identifiers[InsertTargetColumns(cg)[k]]],
              inserted.rows)}

\* merge_processor::execute on every one of the databases: the target
\* tables afterwards, which are the tables before the run when a step failed
ApplyMerge(statement, databases) ==
    IF databases = {} \/ statement.kind # "MERGE" THEN {InitialTables}
    ELSE {IF MergeAccepted(d, statement) THEN ServerMerge(d, statement).tables
          ELSE InitialTables : d \in databases}

\* TemporaryTable::new and execute_table_mapper on the graph cg: the target
\* tables the run can leave behind
TablesAfter(mapper, cg, records) ==
    IF ~cg.ok THEN {InitialTables}
    ELSE IF TemporaryTableColumns(cg) = <<>> \/ InsertProcessorUnreachable(cg)
    THEN {InitialTables}
    ELSE ApplyMerge(
             MergeStatement(cg, mapper.table_identifier,
                            TemporaryTableIdentifier(mapper.table_identifier),
                            mapper.key_columns),
             UpdateLoop(cg, TemporaryTableIdentifier(mapper.table_identifier), 2,
                        StagedDatabases(cg, TemporaryTableIdentifier(mapper.table_identifier),
                                        InsertLoop(cg, records, <<>>))))

InitCompare ==
    /\ import_profile \in {<<m>> : m \in ComparedMappers}
    /\ import_options = [no_merge |-> FALSE, no_drop |-> FALSE,
                         no_duplicate_optimization |-> FALSE]
    /\ pc = "column_graph"
    /\ table_metadata = [t \in TableNames |-> ServerMetadata[t]]
    /\ mapper_index = 1
    /\ column_graph = None
    /\ temporary_table = None
    /\ group_index = 0
    /\ record = None
    /\ pulled = 0
    /\ insert_error = None
    /\ result = None
    /\ returned = None
    /\ bulk_insert = None
    /\ database = InitialDatabase
    /\ log = <<>>
    /\ source_records \in RecordSequences(SourceRecords(import_profile[1]), MaxRecords)
    /\ graph_optimized = None
    /\ graph_plain = None
    /\ tables_optimized = None
    /\ tables_plain = None
    /\ file = None
    /\ stream = None
    /\ stream_pc = "idle"
    /\ items = <<>>
    /\ delivered = <<>>
    /\ identifier_kind = None
    /\ identifier_text = <<>>
    /\ identifiers = <<>>

\* ColumnGraph::new with the default options
BuildOptimized ==
    /\ graph_optimized = None
    /\ graph_optimized' = ColumnGraphNew(table_mapper, table_metadata, import_options)
    /\ UNCHANGED <<import_profile, import_options, table_metadata, executor_vars,
                   identifier_vars,
                   source_records, graph_plain, tables_optimized, tables_plain,
                   source_vars>>

\* ColumnGraph::new with --no-duplicate-optimization
BuildPlain ==
    /\ graph_plain = None
    /\ graph_plain' = ColumnGraphNew(table_mapper, table_metadata,
                           [import_options EXCEPT !.no_duplicate_optimization = TRUE])
    /\ UNCHANGED <<import_profile, import_options, table_metadata, executor_vars,
                   identifier_vars,
                   source_records, graph_optimized, tables_optimized, tables_plain,
                   source_vars>>

RunOptimized ==
    /\ graph_optimized # None
    /\ tables_optimized = None
    /\ tables_optimized' = [tables |-> TablesAfter(table_mapper, graph_optimized,
                                                   source_records)]
    /\ UNCHANGED <<import_profile, import_options, table_metadata, executor_vars,
                   identifier_vars,
                   source_records, graph_optimized, graph_plain, tables_plain,
                   source_vars>>

RunPlain ==
    /\ graph_plain # None
    /\ tables_plain = None
    /\ tables_plain' = [tables |-> TablesAfter(table_mapper, graph_plain, source_records)]
    /\ UNCHANGED <<import_profile, import_options, table_metadata, executor_vars,
                   identifier_vars,
                   source_records, graph_optimized, graph_plain, tables_optimized,
                   source_vars>>

NextCompare ==
    \/ BuildOptimized
    \/ BuildPlain
    \/ RunOptimized
    \/ RunPlain

SpecCompare == InitCompare /\ [][NextCompare]_vars

(***************************************************************************)
(* data_source/string_map.rs                                               *)
(*                                                                         *)
(* Text is a sequence of one-character strings.  A StringMap is the data   *)
(* of all values and, in insertion order, every key with the end of its    *)
(* value in the data.                                                      *)
(***************************************************************************)
StringMap(data, indices) == [data |-> data, indices |-> indices]

\* indices.get_full(key): the position of the key, 0 when it is missing
StringMapIndexOf(map, key) ==
    IF \E i \in DOMAIN map.indices : map.indices[i][1] = key
    THEN Min({i \in DOMAIN map.indices : map.indices[i][1] = key})
    ELSE 0

\* &self.data[start..end]: the slice, or the panic of a range that is not one
Slice(data, start, end) ==
    IF start > end \/ end > Len(data) THEN [panic |-> TRUE]
    ELSE [value |-> SubSeq(data, start + 1, end)]

\* the slice of the value at position i of the indices
StringMapValueAt(map, i) ==
    Slice(map.data, IF i = 1 THEN 0 ELSE map.indices[i - 1][2], map.indices[i][2])

\* StringMap::get
StringMapGet(map, key) ==
    IF StringMapIndexOf(map, key) = 0 THEN None
    ELSE StringMapValueAt(map, StringMapIndexOf(map, key))

\* IndexMap::insert: a known key keeps its place and gets the new value
IndexMapInsert(indices, key, value) ==
    IF \E i \in DOMAIN indices : indices[i][1] = key
    THEN [i \in DOMAIN indices |-> IF indices[i][1] = key THEN <<key, value>> ELSE indices[i]]
    ELSE Append(indices, <<key, value>>)

(***************************************************************************)
(* data_source.rs: the items of a record stream.  record_number is an      *)
(* Option<NonZero<u64>>, None is 0.                                        *)
(***************************************************************************)
DataSourceRecord(fields, record_number) ==
    [ok |-> TRUE, fields |-> fields, record_number |-> record_number]

ReadRecordError(kind, record_number) ==
    [ok |-> FALSE, error |-> kind, record_number |-> record_number]

(***************************************************************************)
(* The tokenizer of delimited text (csv_core::Reader with the Csv          *)
(* configuration), for text without quotes: ',' ends a field, '\n' ends a  *)
(* record, empty lines are skipped.  read_record stops when the record is  *)
(* complete, when the input is used up, or when there is no room left for  *)
(* an output byte or a field end; an empty input is the end of the file.   *)
(***************************************************************************)
Comma == ","

Newline == "\n"

\* Reader::new()
ReaderNew == [state |-> "StartRecord", output_pos |-> 0]

ReadRecordResult(read_result, reader, nin, output, ends) ==
    [result |-> read_result, reader |-> reader, nin |-> nin, output |-> output, ends |-> ends]

RECURSIVE ReadRecordFrom(_, _, _, _, _, _, _)
ReadRecordFrom(reader, input, nin, output, ends, output_room, ends_room) ==
    IF nin = Len(input)
    THEN ReadRecordResult("InputEmpty", reader, nin, output, ends)
    ELSE IF reader.state = "StartRecord" /\ input[nin + 1] = Newline
    THEN ReadRecordFrom(reader, input, nin + 1, output, ends, output_room, ends_room)
    ELSE IF input[nin + 1] \in {Comma, Newline}
    THEN IF Len(ends) = ends_room
         THEN ReadRecordResult("OutputEndsFull", reader, nin, output, ends)
         ELSE IF input[nin + 1] = Comma
         THEN ReadRecordFrom([reader EXCEPT !.state = "StartField"], input, nin + 1, output,
                             Append(ends, reader.output_pos), output_room, ends_room)
         ELSE ReadRecordResult("Record", ReaderNew, nin + 1, output,
                               Append(ends, reader.output_pos))
    ELSE IF Len(output) = output_room
    THEN ReadRecordResult("OutputFull", reader, nin, output, ends)
    ELSE ReadRecordFrom([state |-> "InField", output_pos |-> reader.output_pos + 1],
                        input, nin + 1, Append(output, input[nin + 1]), ends,
                        output_room, ends_room)

\* reader.read_record(input, output, ends)
read_record(reader, input, output_room, ends_room) ==
    IF input # <<>>
    THEN ReadRecordFrom(reader, input, 0, <<>>, <<>>, output_room, ends_room)
    ELSE IF reader.state = "StartRecord"
    THEN ReadRecordResult("End", reader, 0, <<>>, <<>>)
    ELSE IF ends_room = 0
    THEN ReadRecordResult("OutputEndsFull", reader, 0, <<>>, <<>>)
    ELSE ReadRecordResult("Record", ReaderNew, 0, <<>>, <<reader.output_pos>>)

(***************************************************************************)
(* tokio::io::BufReader over the file: the bytes that are buffered and not *)
(* yet consumed, and the bytes of the file that were not yet read          *)
(***************************************************************************)
BufReader(capacity, bytes) == [capacity |-> capacity, buffer |-> <<>>, rest |-> bytes]

fill_buf(buf_reader) ==
    IF buf_reader.buffer # <<>> THEN buf_reader
    ELSE [buf_reader EXCEPT
            !.buffer = SubSeq(buf_reader.rest, 1, Min({buf_reader.capacity, Len(buf_reader.rest)})),
            !.rest = SubSeq(buf_reader.rest,
                            Min({buf_reader.capacity, Len(buf_reader.rest)}) + 1,
                            Len(buf_reader.rest))]

\* a consume that drops whatever the buffer holds
consume_buffer(buf_reader, amount) == [buf_reader EXCEPT !.buffer = <<>>]

consume(buf_reader, amount) ==
    [buf_reader EXCEPT !.buffer = SubSeq(buf_reader.buffer, amount + 1, Len(buf_reader.buffer))]

(***************************************************************************)
(* delimited_data_source.rs: RecordBuffer                                  *)
(***************************************************************************)
\* vec![0; 1024] of RecordBuffer::default, scaled down
OutputBufferLen == 2

\* vec![0; 64] of RecordBuffer::default, scaled down
EndsBufferLen == 1

Zero == "0"

\* Vec::resize(new_len, value)
Resize(buffer, new_len, value) ==
    [i \in 1..new_len |-> IF i <= Len(buffer) THEN buffer[i] ELSE value]

\* copying what a call has written behind the used part of a buffer
WriteAt(buffer, used, written) ==
    [i \in 1..Len(buffer) |->
        IF i > used /\ i <= used + Len(written) THEN written[i - used] ELSE buffer[i]]

RecordBufferDefault ==
    [output_buffer |-> [i \in 1..OutputBufferLen |-> Zero], output_used |-> 0,
     ends_buffer |-> [i \in 1..EndsBufferLen |-> 0], ends_used |-> 0]

expand_output(record_buffer) ==
    [record_buffer EXCEPT
        !.output_buffer = Resize(record_buffer.output_buffer, record_buffer.output_used * 2, Zero)]

expand_ends(record_buffer) ==
    [record_buffer EXCEPT
        !.ends_buffer = Resize(record_buffer.ends_buffer, record_buffer.ends_used * 2, 0)]

\* RecordBuffer::clear: the buffer afterwards (the old output_buffer is returned)
clear(record_buffer) ==
    [output_buffer |-> [i \in 1..Len(record_buffer.output_buffer) |-> Zero],
     output_used |-> 0,
     ends_buffer |-> [i \in 1..Len(record_buffer.ends_buffer) |-> 0],
     ends_used |-> 0]

\* record_buffer.output_used += bytes_output; record_buffer.ends_used += bytes_end
Buffered(record_buffer, rr) ==
    [output_buffer |-> WriteAt(record_buffer.output_buffer, record_buffer.output_used, rr.output),
     output_used |-> record_buffer.output_used + Len(rr.output),
     ends_buffer |-> WriteAt(record_buffer.ends_buffer, record_buffer.ends_used, rr.ends),
     ends_used |-> record_buffer.ends_used + Len(rr.ends)]

\* RecordBuffer::create_data_source_record: the item
create_data_source_record(record_buffer, field_names, record_number) ==
    IF record_buffer.ends_used < Len(field_names)
    THEN ReadRecordError("TooFewFields", record_number)
    ELSE IF record_buffer.ends_used > Len(field_names)
    THEN ReadRecordError("TooManyFields", record_number)
    ELSE DataSourceRecord(
             StringMap(record_buffer.output_buffer,
                       [k \in 1..record_buffer.ends_used |->
                           <<field_names[k], record_buffer.ends_buffer[k]>>]),
             record_number)

(***************************************************************************)
(* delimited_data_source.rs and delimited_data_source_stream.rs: the loop  *)
(* over fill_buf and read_record, which with_buf_reader and poll_next      *)
(* share                                                                   *)
(***************************************************************************)
RECURSIVE ReadLoop(_, _, _)

\* the match on the result of read_record
ReadLoopMatch(rr, buf_reader, record_buffer) ==
    CASE rr.result = "InputEmpty" -> ReadLoop(buf_reader, rr.reader, record_buffer)
      [] rr.result = "OutputFull" ->
            ReadLoop(buf_reader, rr.reader, expand_output(record_buffer))
      [] rr.result = "OutputEndsFull" ->
            ReadLoop(buf_reader, rr.reader, expand_ends(record_buffer))
      [] OTHER -> [result |-> rr.result, buf_reader |-> buf_reader, reader |-> rr.reader,
                   record_buffer |-> record_buffer]

\* buf_reader.consume(bytes_fill_buf) and the two += on the record buffer
ReadLoopConsume(rr, filled, record_buffer) ==
    ReadLoopMatch(rr, consume(filled, rr.nin), Buffered(record_buffer, rr))

ReadLoopRead(filled, reader, record_buffer) ==
    ReadLoopConsume(
        read_record(reader, filled.buffer,
                    Len(record_buffer.output_buffer) - record_buffer.output_used,
                    Len(record_buffer.ends_buffer) - record_buffer.ends_used),
        filled, record_buffer)

ReadLoop(buf_reader, reader, record_buffer) ==
    ReadLoopRead(fill_buf(buf_reader), reader, record_buffer)

\* the scan over the ends of the header record, collected into an IndexSet
HeaderFields(record_buffer) ==
    Dedup([k \in 1..record_buffer.ends_used |->
              SubSeq(record_buffer.output_buffer,
                     (IF k = 1 THEN 0 ELSE record_buffer.ends_buffer[k - 1]) + 1,
                     record_buffer.ends_buffer[k])])

\* the Record arm and the End arm of with_buf_reader
HeaderRead(read) ==
    IF read.result = "End" THEN [panic |-> "unimplemented"]
    ELSE [ok |-> TRUE,
          stream |-> [buf_reader |-> read.buf_reader, reader |-> read.reader,
                      fields |-> HeaderFields(read.record_buffer),
                      record_buffer |-> clear(read.record_buffer),
                      record_number |-> 0]]

\* DelimitedDataSource::with_buf_reader
with_buf_reader(buf_reader) == HeaderRead(ReadLoop(buf_reader, ReaderNew, RecordBufferDefault))

\* the fields of the field group that the header lacks, the first one only
missing_field_names_first(fields, header_fields) ==
    IF \A k \in 1..Len(fields) : fields[k] \in Range(header_fields) THEN <<>>
    ELSE <<fields[Min({k \in 1..Len(fields) : fields[k] \notin Range(header_fields)})]>>

\* the fields of the field group that the header lacks, in field-list order
missing_field_names(fields, header_fields) ==
    FilterSeq(fields, [k \in 1..Len(fields) |-> fields[k] \notin Range(header_fields)])

\* the filter_map and the check of DelimitedDataSource::new
DelimitedCreated(created, fields) ==
    IF "panic" \in DOMAIN created THEN created
    ELSE IF missing_field_names(fields, created.stream.fields) # <<>>
    THEN [ok |-> FALSE, error |-> "MissingFields",
          fields |-> missing_field_names(fields, created.stream.fields)]
    ELSE created

\* DelimitedDataSource::new on a file that can be opened
DelimitedDataSourceNew(bytes, capacity, fields) ==
    DelimitedCreated(with_buf_reader(BufReader(capacity, bytes)), fields)

\* a record number that every row gets anew
NextRecordNumberStuck(record_number) == 1

\* NonZero::new(record_number.map_or(1, |r| r.get() + 1))
NextRecordNumber(record_number) == record_number + 1

\* the Record arm and the End arm of poll_next: the stream afterwards and
\* the item, None at the end of the stream
DelimitedPolled(data_source, read) ==
    IF read.result = "End"
    THEN [stream |-> [data_source EXCEPT !.buf_reader = read.buf_reader,
                                         !.reader = read.reader,
                                         !.record_buffer = read.record_buffer],
          item |-> None]
    ELSE [stream |-> [data_source EXCEPT !.buf_reader = read.buf_reader,
                                         !.reader = read.reader,
                                         !.record_buffer = clear(read.record_buffer),
                                         !.record_number = NextRecordNumber(@)],
          item |-> create_data_source_record(read.record_buffer, data_source.fields,
                                             NextRecordNumber(data_source.record_number))]

\* <DelimitedDataSource as Stream>::poll_next when fill_buf does not fail
DelimitedPoll(data_source) ==
    DelimitedPolled(data_source,
                    ReadLoop(data_source.buf_reader, data_source.reader,
                             data_source.record_buffer))

(***************************************************************************)
(* preprocess.rs and import_profile.rs: prepare_stream                     *)
(***************************************************************************)
UpperCase(char) ==
    CASE char = "x" -> "X" [] char = "y" -> "Y" [] char = "z" -> "Z" [] OTHER -> char

\* PreprocessTransform::transform of the script in use: it drops a record
\* whose first field is empty, upper-cases one whose first field starts
\* with x and fails on every other record
PreprocessTransform(item) ==
    IF item.fields.indices = <<>> \/ StringMapValueAt(item.fields, 1).value = <<>>
    THEN [kind |-> "None"]
    ELSE IF StringMapValueAt(item.fields, 1).value[1] = "x"
    THEN [kind |-> "Some",
          record |-> [item EXCEPT !.fields.data =
                         [i \in 1..Len(item.fields.data) |-> UpperCase(item.fields.data[i])]]]
    ELSE [kind |-> "Err"]

\* the closure given to try_filter_map, applied to a record of the source
TryFilterMapClosure(item, preprocess_transform) ==
    IF ~preprocess_transform THEN [kind |-> "Some", record |-> item]
    ELSE IF PreprocessTransform(item).kind = "Err"
    THEN [kind |-> "Err",
          error |-> ReadRecordError("PreprocessReadRecordError", item.record_number)]
    ELSE PreprocessTransform(item)

(***************************************************************************)
(* The files a data source is read from                                    *)
(***************************************************************************)
MaxRows == 2

MaxBufSize == 3

RECURSIVE Join(_, _)
Join(parts, separator) ==
    IF parts = <<>> THEN <<>>
    ELSE IF Len(parts) = 1 THEN parts[1]
    ELSE parts[1] \o <<separator>> \o Join(Tail(parts), separator)

\* the text of a delimited file: the header line and a line for every row
DelimitedBytes(header, rows, terminated) ==
    Join(<<Join(header, Comma)>> \o [k \in 1..Len(rows) |-> Join(rows[k], Comma)], Newline)
        \o (IF terminated THEN <<Newline>> ELSE <<>>)

FieldA == <<"A">>

FieldB == <<"B">>

FieldC == <<"C">>

FieldD == <<"D">>

Headers == {<<FieldA, FieldB>>, <<FieldA, FieldB, FieldA>>}

Rows == {<<<<"x">>, <<"y", "z">>>>,
         <<<<"y", "z">>, <<"x">>>>,
         <<<<>>, <<"x">>>>,
         <<<<"x">>>>,
         <<<<"x">>, <<"y">>, <<"z">>>>}

FieldGroups == {<<FieldA, FieldB>>, <<FieldB>>, <<FieldC, FieldA, FieldD>>, <<FieldB, FieldC>>}

RowSequences == UNION {[1..n -> Rows] : n \in 0..MaxRows}

DelimitedFiles ==
    {[kind |-> "delimited", header |-> header, rows |-> rows,
      bytes |-> DelimitedBytes(header, rows, terminated),
      buf_size |-> buf_size, fields |-> fields, preprocess_transform |-> transform] :
        header \in Headers, rows \in RowSequences, terminated \in BOOLEAN,
        buf_size \in 1..MaxBufSize, fields \in FieldGroups, transform \in BOOLEAN}

(***************************************************************************)
(* xml_data_source.rs and xml_data_source_stream.rs.  The document is the  *)
(* sequence of events that the XML tokenizer reads from it, Eof after the  *)
(* last one.                                                               *)
(***************************************************************************)
Start(name) == [type |-> "Start", name |-> name]

End(name) == [type |-> "End", name |-> name]

Text(text) == [type |-> "Text", text |-> text]

\* CurrentRecordState::new; field_index is an Option<usize>, None is 0
CurrentRecordStateNew == [field_data |-> <<>>, field_indices |-> <<>>, field_index |-> 0]

NonEmpty(names) == FilterSeq(names, [k \in 1..Len(names) |-> names[k] # <<>>])

\* XmlDataSource::new on a file that can be opened; the selector is given
\* as its parts between the slashes
XmlDataSourceNew(events, fields, selector) ==
    IF NonEmpty(selector) = <<>> THEN [ok |-> FALSE, error |-> "InvalidSelector"]
    ELSE IF NonEmpty(fields) = <<>> THEN [ok |-> FALSE, error |-> "InvalidFields"]
    ELSE [ok |-> TRUE,
          stream |-> [events |-> events, selector_parts |-> NonEmpty(selector),
                      fields |-> Dedup(NonEmpty(fields)), depth |-> 0, record_number |-> 0,
                      current_record_state |-> CurrentRecordStateNew]]

\* fields.get_index_of(name), counted from 1; 0 when the name is no field
GetIndexOf(fields, name) ==
    IF name \in Range(fields) THEN CHOOSE k \in DOMAIN fields : fields[k] = name ELSE 0

\* *current_data += ...
AppendData(data_source, text) ==
    [data_source EXCEPT !.current_record_state.field_data = @ \o text]

RECURSIVE XmlPoll(_)

\* a start tag below the selector that captures whatever its name is
XmlStartCapturesAny(data_source, name) ==
    IF data_source.depth <= Len(data_source.selector_parts)
    THEN IF data_source.selector_parts[data_source.depth] # name
         THEN [stream |-> data_source,
               item |-> ReadRecordError("UnexpectedStartTag", data_source.record_number)]
         ELSE XmlPoll(data_source)
    ELSE IF data_source.depth - Len(data_source.selector_parts) = 1
    THEN XmlPoll([data_source EXCEPT !.current_record_state.field_index = 1])
    ELSE XmlPoll(AppendData(data_source, <<"<">> \o name \o <<">">>))

\* the Start arm, after *depth += 1
XmlStart(data_source, name) ==
    IF data_source.depth <= Len(data_source.selector_parts)
    THEN IF data_source.selector_parts[data_source.depth] # name
         THEN [stream |-> data_source,
               item |-> ReadRecordError("UnexpectedStartTag", data_source.record_number)]
         ELSE XmlPoll(data_source)
    ELSE IF data_source.depth - Len(data_source.selector_parts) = 1
    THEN IF GetIndexOf(data_source.fields, name) # 0
         THEN XmlPoll([data_source EXCEPT !.current_record_state.field_index =
                                              GetIndexOf(data_source.fields, name)])
         ELSE [stream |-> data_source,
               item |-> ReadRecordError("UnknownField", data_source.record_number)]
    ELSE XmlPoll(AppendData(data_source, <<"<">> \o name \o <<">">>))

\* the record of the End arm at the depth above the selector
XmlRecord(data_source) ==
    [stream |-> [data_source EXCEPT !.record_number = @ + 1,
                                    !.current_record_state = CurrentRecordStateNew],
     item |-> DataSourceRecord(StringMap(data_source.current_record_state.field_data,
                                         data_source.current_record_state.field_indices),
                               data_source.record_number + 1)]

\* the End arm, after *depth -= 1
XmlEnd(data_source, name) ==
    IF data_source.depth > Len(data_source.selector_parts)
    THEN XmlPoll(AppendData(data_source, <<"<", "/">> \o name \o <<">">>))
    ELSE IF data_source.depth = Len(data_source.selector_parts)
    THEN IF data_source.current_record_state.field_index # 0
         THEN XmlPoll([data_source EXCEPT
                  !.current_record_state.field_index = 0,
                  !.current_record_state.field_indices =
                      IndexMapInsert(@,
                          data_source.fields[data_source.current_record_state.field_index],
                          Len(data_source.current_record_state.field_data))])
         ELSE [stream |-> data_source, item |-> [panic |-> "unreachable"]]
    ELSE IF data_source.depth = Len(data_source.selector_parts) - 1
    THEN XmlRecord(data_source)
    ELSE XmlPoll(data_source)

\* the match on the event
XmlEvent(data_source, event) ==
    CASE event.type = "Start" -> XmlStart([data_source EXCEPT !.depth = @ + 1], event.name)
      [] event.type = "End" -> XmlEnd([data_source EXCEPT !.depth = @ - 1], event.name)
      [] OTHER -> XmlPoll(IF data_source.current_record_state.field_index # 0
                          THEN AppendData(data_source, event.text)
                          ELSE data_source)

\* <XmlDataSource as Stream>::poll_next when the tokenizer does not fail:
\* the stream afterwards and the item, None at Eof
XmlPoll(data_source) ==
    IF data_source.events = <<>> THEN [stream |-> data_source, item |-> None]
    ELSE XmlEvent([data_source EXCEPT !.events = Tail(@)], Head(data_source.events))

(***************************************************************************)
(* The XML documents a data source is read from                            *)
(***************************************************************************)
Catalog == <<"c">>

Item == <<"i">>

Other == <<"o">>

Sku == <<"s">>

Name == <<"n">>

Bogus == <<"u">>

Bold == <<"b">>

Element(name, content) == <<Start(name)>> \o content \o <<End(name)>>

TextElement(name, text) == Element(name, IF text = <<>> THEN <<>> ELSE <<Text(text)>>)

RecordElements ==
    {Element(Item, TextElement(Sku, <<"x">>) \o TextElement(Name, <<"y", "z">>)),
     Element(Item, TextElement(Name, <<"x">>) \o TextElement(Sku, <<"y">>)),
     Element(Item, TextElement(Sku, <<"x">>) \o TextElement(Name, <<"y">>)
                       \o TextElement(Sku, <<"z">>)),
     Element(Item, Element(Sku, <<Text(<<"x">>)>> \o TextElement(Bold, <<"y">>))),
     Element(Item, <<Text(<<"z">>)>> \o TextElement(Sku, <<>>)),
     Element(Item, TextElement(Bogus, <<"x">>)),
     Element(Other, TextElement(Sku, <<"x">>))}

RecordElementSequences == UNION {[1..n -> RecordElements] : n \in 0..MaxRows}

\* "catalog/item", "/item" and "/"
Selectors == {<<Catalog, Item>>, <<<<>>, Item>>, <<<<>>>>}

XmlFiles ==
    {[kind |-> "xml", root |-> root, records |-> records,
      events |-> Element(root, Concat(records)),
      selector |-> selector, fields |-> <<Sku, Name>>, preprocess_transform |-> transform] :
        root \in {Catalog, Other}, records \in RecordElementSequences,
        selector \in Selectors, transform \in BOOLEAN}

(***************************************************************************)
(* import_profile.rs: create_data_source and the stream of prepare_stream  *)
(***************************************************************************)
\* <S as Stream>::poll_next of the data source behind the stream
SourcePoll(kind, data_source) ==
    IF kind = "delimited" THEN DelimitedPoll(data_source) ELSE XmlPoll(data_source)

RECURSIVE TryFilterMapPoll(_, _, _, _)

\* a stream that ends at the first record the closure drops
TryFilterMapEndsAtNone(kind, data_source, preprocess_transform, yielded, outcome) ==
    CASE outcome.kind = "Some" ->
            [stream |-> data_source, yielded |-> yielded, item |-> outcome.record]
      [] outcome.kind = "Err" ->
            [stream |-> data_source, yielded |-> yielded, item |-> outcome.error]
      [] OTHER -> [stream |-> data_source, yielded |-> yielded, item |-> None]

\* what the closure made of a record: an item, or the next poll of the source
TryFilterMapApplied(kind, data_source, preprocess_transform, yielded, outcome) ==
    CASE outcome.kind = "Some" ->
            [stream |-> data_source, yielded |-> yielded, item |-> outcome.record]
      [] outcome.kind = "Err" ->
            [stream |-> data_source, yielded |-> yielded, item |-> outcome.error]
      [] OTHER -> TryFilterMapPoll(kind, data_source, preprocess_transform, yielded)

\* what TryFilterMap does with the item of the source
TryFilterMapPolled(kind, polled, preprocess_transform, yielded) ==
    IF polled.item = None \/ "panic" \in DOMAIN polled.item
    THEN [stream |-> polled.stream, yielded |-> yielded, item |-> polled.item]
    ELSE IF ~polled.item.ok
    THEN [stream |-> polled.stream, yielded |-> Append(yielded, polled.item),
          item |-> polled.item]
    ELSE TryFilterMapApplied(kind, polled.stream, preprocess_transform,
                             Append(yielded, polled.item),
                             TryFilterMapClosure(polled.item, preprocess_transform))

\* <TryFilterMap as Stream>::poll_next: the data source afterwards, the
\* items the data source has yielded to it and the item it yields itself
TryFilterMapPoll(kind, data_source, preprocess_transform, yielded) ==
    TryFilterMapPolled(kind, SourcePoll(kind, data_source), preprocess_transform, yielded)

InitSource ==
    /\ import_profile = <<>>
    /\ import_options = [no_merge |-> FALSE, no_drop |-> FALSE,
                         no_duplicate_optimization |-> FALSE]
    /\ pc = "data_source"
    /\ table_metadata = [t \in TableNames |-> ServerMetadata[t]]
    /\ mapper_index = 1
    /\ column_graph = None
    /\ temporary_table = None
    /\ group_index = 0
    /\ record = None
    /\ pulled = 0
    /\ insert_error = None
    /\ result = None
    /\ returned = None
    /\ bulk_insert = None
    /\ database = InitialDatabase
    /\ log = <<>>
    /\ source_records = <<>>
    /\ graph_optimized = None
    /\ graph_plain = None
    /\ tables_optimized = None
    /\ tables_plain = None
    /\ file \in DelimitedFiles \cup XmlFiles
    /\ stream = None
    /\ stream_pc = "new"
    /\ items = <<>>
    /\ delivered = <<>>
    /\ identifier_kind = None
    /\ identifier_text = <<>>
    /\ identifiers = <<>>

\* the result of DataSource::new: the stream, the error or the panic
Created(created) ==
    /\ stream' = IF "panic" \in DOMAIN created THEN None
                 ELSE IF created.ok THEN created.stream ELSE created
    /\ stream_pc' = IF "panic" \in DOMAIN created THEN "panicked"
                    ELSE IF created.ok THEN "ready" ELSE "failed"
    /\ UNCHANGED <<file, items, delivered>>

\* create_data_source, the DelimitedDataSourceConfig arm
CreateDelimitedDataSource ==
    /\ stream_pc = "new"
    /\ file.kind = "delimited"
    /\ Created(DelimitedDataSourceNew(file.bytes, file.buf_size, file.fields))
    /\ UNCHANGED <<import_profile, import_options, table_metadata, comparison_vars,
                   executor_vars, identifier_vars>>

\* create_data_source, the XmlDataSourceConfig arm
CreateXmlDataSource ==
    /\ stream_pc = "new"
    /\ file.kind = "xml"
    /\ Created(XmlDataSourceNew(file.events, file.fields, file.selector))
    /\ UNCHANGED <<import_profile, import_options, table_metadata, comparison_vars,
                   executor_vars, identifier_vars>>

\* the item of a poll, appended to what was yielded before
Polled(polled) ==
    /\ stream' = polled.stream
    /\ items' = items \o polled.yielded
    /\ delivered' = IF polled.item = None \/ "panic" \in DOMAIN polled.item
                    THEN delivered ELSE Append(delivered, polled.item)
    /\ stream_pc' = IF polled.item = None THEN "ended"
                    ELSE IF "panic" \in DOMAIN polled.item THEN "panicked"
                    ELSE "ready"
    /\ UNCHANGED file

\* one poll_next of the stream that create_data_source returned
PollNext ==
    /\ stream_pc = "ready"
    /\ Polled(TryFilterMapPoll(file.kind, stream, file.preprocess_transform, <<>>))
    /\ UNCHANGED <<import_profile, import_options, table_metadata, comparison_vars,
                   executor_vars, identifier_vars>>

NextSource ==
    \/ CreateDelimitedDataSource
    \/ CreateXmlDataSource
    \/ PollNext

SpecSource == InitSource /\ [][NextSource]_vars

(***************************************************************************)
(* identifier.rs.  A text is a sequence of characters.                     *)
(***************************************************************************)
\* char::is_alphanumeric, for the characters of the model
Alphanumeric ==
    {"a", "b", "d", "e", "m", "n", "o", "r", "t", "u", "y", "C", "D", "I", "N", "P",
     "0", "1", "2", "3", "4", "5", "6", "7", "8", "9"}

\* matches!(c, '@' | '$' | '#' | '_')
SpecialCharacters == {"@", "$", "#", "_"}

ParseIdentifierError(error, detail) == [ok |-> FALSE, error |-> error, detail |-> detail]

\* the characters the while loop tests: neither an opening bracket at index
\* 0 nor a closing bracket at the last index
TestedIndices(part) ==
    {i \in 1..Len(part) : ~(i = 1 /\ part[i] = "[") /\ ~(i = Len(part) /\ part[i] = "]")}

\* a normalization that wraps every part, bracketed or not
normalize_identifier_part_wrapping(part) ==
    LET invalid == {i \in TestedIndices(part) :
                       part[i] \notin Alphanumeric \cup SpecialCharacters}
        start_bracket == Len(part) > 0 /\ part[1] = "["
        end_bracket == \E i \in 1..Len(part) :
                          /\ i = Len(part)
                          /\ ~(i = 1 /\ part[i] = "[")
                          /\ part[i] = "]"
    IN  IF invalid # {} THEN ParseIdentifierError("InvalidCharacter", part[Min(invalid)])
        ELSE IF start_bracket # end_bracket THEN ParseIdentifierError("InvalidBrackets", Null)
        ELSE [ok |-> TRUE, part |-> <<"[">> \o part \o <<"]">>]

\* normalize_identifier_part: the first tested character that is neither
\* alphanumeric nor one of @$#_ is the error; then the brackets decide
normalize_identifier_part(part) ==
    LET invalid == {i \in TestedIndices(part) :
                       part[i] \notin Alphanumeric \cup SpecialCharacters}
        start_bracket == Len(part) > 0 /\ part[1] = "["
        end_bracket == \E i \in 1..Len(part) :
                          /\ i = Len(part)
                          /\ ~(i = 1 /\ part[i] = "[")
                          /\ part[i] = "]"
    IN  IF invalid # {} THEN ParseIdentifierError("InvalidCharacter", part[Min(invalid)])
        ELSE IF start_bracket # end_bracket THEN ParseIdentifierError("InvalidBrackets", Null)
        ELSE IF start_bracket THEN [ok |-> TRUE, part |-> part]
        ELSE [ok |-> TRUE, part |-> <<"[">> \o part \o <<"]">>]

\* str::split('.'): the parts between the dots, at least one
RECURSIVE SplitFrom(_, _)
SplitFrom(text, part) ==
    IF text = <<>> THEN <<part>>
    ELSE IF Head(text) = "." THEN <<part>> \o SplitFrom(Tail(text), <<>>)
    ELSE SplitFrom(Tail(text), Append(part, Head(text)))

Split(text) == SplitFrom(text, <<>>)

Dbo == <<"[", "d", "b", "o", "]">>

\* parts.next().transpose()? for the first wanted parts, in order: the error
\* of the first part that has one, among the parts that are there
FirstPartError(parts, wanted) ==
    LET failed == {k \in 1..Min({wanted, Len(parts)}) : ~normalize_identifier_part(parts[k]).ok}
    IN  IF failed = {} THEN None ELSE normalize_identifier_part(parts[Min(failed)])

\* FromStr for DatabaseIdentifier and SchemaIdentifier
PartFromStr(identifier) ==
    LET part == normalize_identifier_part(identifier)
    IN  IF part.ok THEN [ok |-> TRUE, full |-> part.part] ELSE part

\* FromStr for TableIdentifier
TableFromStr(identifier) ==
    LET parts == Split(identifier)
        error == FirstPartError(parts, 2)
        table == normalize_identifier_part(parts[Len(parts)]).part
    IN  IF error # None THEN error
        ELSE IF Len(parts) >= 3 THEN ParseIdentifierError("TooManyParts", Len(parts) - 3)
        ELSE IF Len(parts) = 2
        THEN [ok |-> TRUE,
              full |-> normalize_identifier_part(parts[1]).part \o <<".">> \o table,
              separator_schema_table |-> Len(normalize_identifier_part(parts[1]).part)]
        ELSE [ok |-> TRUE, full |-> Dbo \o <<".">> \o table,
              separator_schema_table |-> Len(Dbo)]

\* FromStr for ColumnIdentifier
ColumnFromStr(identifier) ==
    LET parts == Split(identifier)
        error == FirstPartError(parts, 3)
        part(k) == normalize_identifier_part(parts[k]).part
    IN  IF error # None THEN error
        ELSE IF Len(parts) >= 4 THEN ParseIdentifierError("TooManyParts", Len(parts) - 4)
        ELSE IF Len(parts) = 3
        THEN [ok |-> TRUE,
              full |-> part(1) \o <<".">> \o part(2) \o <<".">> \o part(3),
              separator_schema_table |-> Len(part(1)),
              separator_table_column |-> Len(part(1)) + 1 + Len(part(2))]
        ELSE IF Len(parts) = 2
        THEN [ok |-> TRUE,
              full |-> Dbo \o <<".">> \o part(1) \o <<".">> \o part(2),
              separator_schema_table |-> Len(Dbo),
              separator_table_column |-> Len(Dbo) + 1 + Len(part(1))]
        ELSE ParseIdentifierError("TooFewParts", Null)

FromStr(kind, identifier) ==
    IF kind = "Table" THEN TableFromStr(identifier)
    ELSE IF kind = "Column" THEN ColumnFromStr(identifier)
    ELSE PartFromStr(identifier)

\* the parts the identifier texts of the model are made of
IdentifierParts ==
    {<<"a", "_", "1">>, <<"b", "#">>, <<"[", "a", "]">>, <<"[", "a", " ", "]">>,
     <<"a", " ">>, <<"[", "a">>, <<"a", "]">>, <<>>}

\* the number of dot-separated parts of a text
MaxParts == 4

IdentifierTexts ==
    {Join(parts, ".") : parts \in UNION {[1..n -> IdentifierParts] : n \in 1..MaxParts}}

IdentifierKinds == {"Database", "Schema", "Table", "Column"}

InitIdentifier ==
    /\ import_profile = <<>>
    /\ import_options = [no_merge |-> FALSE, no_drop |-> FALSE,
                         no_duplicate_optimization |-> FALSE]
    /\ pc = "identifier"
    /\ table_metadata = None
    /\ mapper_index = 1
    /\ column_graph = None
    /\ temporary_table = None
    /\ group_index = 0
    /\ record = None
    /\ pulled = 0
    /\ insert_error = None
    /\ result = None
    /\ returned = None
    /\ bulk_insert = None
    /\ database = InitialDatabase
    /\ log = <<>>
    /\ source_records = <<>>
    /\ graph_optimized = None
    /\ graph_plain = None
    /\ tables_optimized = None
    /\ tables_plain = None
    /\ file = None
    /\ stream = None
    /\ stream_pc = "idle"
    /\ items = <<>>
    /\ delivered = <<>>
    /\ identifier_kind \in IdentifierKinds
    /\ identifier_text \in IdentifierTexts
    /\ identifiers = <<>>

\* s.parse::<Identifier>() for the text of a profile
ParseIdentifier ==
    /\ identifiers = <<>>
    /\ identifiers' = <<FromStr(identifier_kind, identifier_text)>>
    /\ UNCHANGED <<identifier_kind, identifier_text, import_profile, import_options,
                   table_metadata, comparison_vars, executor_vars, source_vars>>

\* identifier.full().parse::<Identifier>() for an identifier that parsed
ReparseIdentifier ==
    /\ Len(identifiers) = 1
    /\ identifiers[1].ok
    /\ identifiers' = Append(identifiers, FromStr(identifier_kind, identifiers[1].full))
    /\ UNCHANGED <<identifier_kind, identifier_text, import_profile, import_options,
                   table_metadata, comparison_vars, executor_vars, source_vars>>

NextIdentifier ==
    \/ ParseIdentifier
    \/ ReparseIdentifier

SpecIdentifier == InitIdentifier /\ [][NextIdentifier]_vars



(***************************************************************************)
(* What the server saw                                                     *)
(***************************************************************************)
PhaseRank(op) ==
    CASE op = "CREATE" -> 1
      [] op = "BULK_OPEN" -> 2
      [] op = "BULK_ROW" -> 3
      [] op = "BULK_FINALIZE" -> 4
      [] op = "UPDATE" -> 5
      [] op = "MERGE" -> 6
      [] op = "DROP" -> 7

Issued(m, op) == {i \in 1..Len(log) : log[i].mapper = m /\ log[i].op = op}

Accepted(m, op) == {i \in Issued(m, op) : log[i].ok}

\* the groups after group 0 (numbered from 0) that hold a Lookup node
LookupGroups(cg) ==
    {g - 1 : g \in {h \in 2..Len(cg.groups) :
        \E k \in 1..Len(cg.groups[h]) : cg.graph.node[cg.groups[h][k]].kind = "LookupColumn"}}

(***************************************************************************)
(* C1: within one mapper the statements reach the server phase by phase:   *)
(* CREATE, bulk open, bulk rows, bulk finalize, the UPDATEs in ascending   *)
(* group index, MERGE, DROP; each phase but the rows and the UPDATEs is    *)
(* one statement, a statement of a later phase is issued only after the    *)
(* earlier phases were completed, and a run that returns Ok has issued for *)
(* every mapper one CREATE, one bulk insert, the UPDATE of every group     *)
(* with a Lookup, one MERGE and (unless no_drop) one DROP.                 *)
(***************************************************************************)
PhasesInOrder ==
    \A i, j \in 1..Len(log) :
        (i < j /\ log[i].mapper = log[j].mapper) =>
            /\ PhaseRank(log[i].op) <= PhaseRank(log[j].op)
            /\ PhaseRank(log[i].op) = PhaseRank(log[j].op) => log[i].op \in {"BULK_ROW", "UPDATE"}
            /\ (log[i].op = "UPDATE" /\ log[j].op = "UPDATE") => log[i].group < log[j].group
            /\ log[j].op \in {"UPDATE", "MERGE"} => log[i].ok

PhasesComplete ==
    \A j \in 1..Len(log) :
        LET m == log[j].mapper
            before(op) == {i \in Accepted(m, op) : i < j}
        IN  /\ log[j].op # "CREATE" => before("CREATE") # {}
            /\ log[j].op \in {"BULK_ROW", "BULK_FINALIZE"} => before("BULK_OPEN") # {}
            /\ log[j].op \in {"UPDATE", "MERGE"} => before("BULK_FINALIZE") # {}
            /\ (log[j].op = "MERGE" /\ m = mapper_index) =>
                  {log[i].group : i \in before("UPDATE")} = LookupGroups(column_graph)

\* a mapper run that returned Ok has issued every phase once and the UPDATE
\* of every group with a Lookup; a run that returned Ok did so for every mapper
SuccessfulRunShape ==
    /\ (pc = "finalize_temporary_table" /\ result.ok) =>
            /\ Cardinality(Accepted(mapper_index, "CREATE")) = 1
            /\ Cardinality(Accepted(mapper_index, "BULK_OPEN")) = 1
            /\ Cardinality(Accepted(mapper_index, "BULK_FINALIZE")) = 1
            /\ {log[i].group : i \in Accepted(mapper_index, "UPDATE")}
                    = LookupGroups(column_graph)
            /\ Cardinality(Accepted(mapper_index, "MERGE")) = 1
    /\ (pc = "done" /\ returned = Ok) =>
            \A m \in 1..Len(import_profile) :
                /\ Cardinality(Accepted(m, "MERGE")) = 1
                /\ Cardinality(Accepted(m, "DROP")) = IF import_options.no_drop THEN 0 ELSE 1

C1_PhaseOrder == PhasesInOrder /\ PhasesComplete /\ SuccessfulRunShape

\* a run of the two-lookup mapper that went through every phase
C1_Witness ==
    /\ pc = "done" /\ returned = Ok
    /\ import_profile = <<PeersMapper>>
    /\ Cardinality(Accepted(1, "UPDATE")) = 2
    /\ Cardinality(Accepted(1, "BULK_ROW")) = 2
    /\ Cardinality(Accepted(1, "DROP")) = 1

(***************************************************************************)
(* C2: when import_executor returns, every staging table that was created  *)
(* has seen exactly one DROP if no_drop is false and none if it is true,   *)
(* whichever later step of the mapper failed.                              *)
(***************************************************************************)
C2_DropOnce ==
    pc = "done" =>
        \A m \in 1..Len(import_profile) :
            Accepted(m, "CREATE") # {} =>
                Cardinality(Issued(m, "DROP")) = IF import_options.no_drop THEN 0 ELSE 1

\* returns after a failed UPDATE, after a record error, and with no_drop
C2_Witness ==
    /\ pc = "done"
    /\ result # None /\ ~result.ok
    /\ result.error \in {"UpdateProcessor", "ExecuteRecordFailed", "ReadRecordFailed",
                         "CreateInsertProcessor", "FinalizeInsertProcessor", "MergeProcessor"}
    /\ Accepted(mapper_index, "CREATE") # {}
    /\ Cardinality(Issued(mapper_index, "DROP")) = 1

(***************************************************************************)
(* C3: when the mapper run failed, import_executor returns that error also *)
(* when the DROP fails; FinalizeTemporaryTable is returned only after a    *)
(* successful mapper run.                                                  *)
(***************************************************************************)
C3_OriginalErrorWins ==
    (pc = "done" /\ ~returned.ok /\ returned.error = "FinalizeTemporaryTable") => result.ok

(***************************************************************************)
(* What the profile declares, for the statements about the data            *)
(***************************************************************************)
\* the staging column of the mapped column with the identifier id
MappedStagingColumn(cg, id) ==
    cg.unique_identifiers[
        CHOOSE i \in DOMAIN cg.graph.node :
            /\ NodeIdentifier(cg.graph.node[i]) = id
            /\ NodeMap(cg.graph.node[i])
            /\ ~is_transient(cg.graph.node[i])]

MappedColumns(mapper) ==
    {mapper.columns[k].column_identifier :
        k \in {j \in 1..Len(mapper.columns) : mapper.columns[j].map_column}}

\* the target row t and the staged row s agree on the declared key columns
KeyEquals(mapper, cg, t, s) ==
    \A k \in 1..Len(mapper.key_columns) :
        SqlEquals(t[mapper.key_columns[k][2]],
                  s[MappedStagingColumn(cg, mapper.key_columns[k])])

\* the mapped Lookup columns of a mapper whose keys are all source fields
FieldKeyedLookups(mapper) ==
    {c \in Range(mapper.columns) :
        /\ c.kind = "Lookup"
        /\ c.map_column
        /\ \A q \in 1..Len(c.key_columns) : c.key_columns[q].kind = "ParserKey"}

\* the records of the rows that reached the staging table of mapper m
StagedInputs(m) ==
    LET sent == SetToSeq(Accepted(m, "BULK_ROW"))
    IN  [r \in 1..Len(sent) |-> log[sent[r]].input]

\* the rows of the lookup table whose key columns equal the fields of rec
LookupMatches(c, rec) ==
    {l \in Range(database.tables[c.table_identifier]) :
        \A q \in 1..Len(c.key_columns) :
            LET key == c.key_columns[q]
                ty == ServerMetadata[key.key_column_identifier[1]][key.key_column_identifier].ty
            IN  SqlEquals(l[key.key_column_identifier[2]], ColumnData(ty, rec[key.field_name]))}

(***************************************************************************)
(* C4: a MERGE that succeeds leaves the target table as the insert-or-     *)
(* update of the staged rows on the declared key columns: a target row     *)
(* whose key equals that of a staged row takes the non-key mapped columns  *)
(* of that staged row and keeps its other columns, every staged row whose  *)
(* key equals that of no target row is added with its mapped columns, the  *)
(* other target rows and the other tables are as before; no row is lost.   *)
(***************************************************************************)
C4_InsertOrUpdate ==
    [][(pc = "merge" /\ result' = Ok) =>
        LET name == table_mapper.table_identifier
            old == database.tables[name]
            new == database'.tables[name]
            staged == database.staging[temporary_table].rows
            mapped == MappedColumns(table_mapper)
            non_key == mapped \ Range(table_mapper.key_columns)
            matched(t, s) == KeyEquals(table_mapper, column_graph, t, s)
            unmatched == FilterSeq(staged,
                            [s \in 1..Len(staged) |->
                                \A t \in 1..Len(old) : ~matched(old[t], staged[s])])
        IN  /\ Len(new) = Len(old) + Len(unmatched)
            /\ \A t \in 1..Len(old) :
                   IF \E s \in 1..Len(staged) : matched(old[t], staged[s])
                   THEN \E s \in 1..Len(staged) :
                          /\ matched(old[t], staged[s])
                          /\ \A c \in DOMAIN old[t] :
                                 new[t][c] = IF <<name, c>> \in non_key
                                             THEN staged[s][MappedStagingColumn(column_graph,
                                                                               <<name, c>>)]
                                             ELSE old[t][c]
                   ELSE new[t] = old[t]
            /\ \A u \in 1..Len(unmatched) : \A id \in mapped :
                   new[Len(old) + u][id[2]]
                       = unmatched[u][MappedStagingColumn(column_graph, id)]
            /\ \A other \in (DOMAIN database.tables) \ {name} :
                   database'.tables[other] = database.tables[other]]_vars

\* a MERGE that updated the row of MSFT and inserted a row for NVDA
C4_Witness ==
    /\ pc = "finalize_temporary_table" /\ result = Ok
    /\ table_mapper = CompaniesMapper
    /\ Len(database.tables["Company"]) = 2
    /\ database.tables["Company"][1] # InitialTables["Company"][1]
    /\ database.tables["Company"][1].Code = "MSFT"
    /\ database.tables["Company"][2].Code = "NVDA"

(***************************************************************************)
(* C5: for a mapped Lookup column whose keys are source fields, when the   *)
(* MERGE is about to be issued every staged row holds in the lookup column *)
(* the output-column value of some lookup-table row whose key columns      *)
(* equal the fields of the record the row came from, and NULL when there   *)
(* is no such row; after the MERGE succeeded a target row with the key of  *)
(* the staged row carries that value.                                      *)
(***************************************************************************)
C5_LookupResolved ==
    /\ pc = "merge" =>
          \A c \in FieldKeyedLookups(table_mapper) :
              LET staged == database.staging[temporary_table].rows
                  inputs == StagedInputs(mapper_index)
                  column == MappedStagingColumn(column_graph, c.column_identifier)
              IN  /\ Len(staged) = Len(inputs)
                  /\ \A r \in 1..Len(staged) :
                         IF LookupMatches(c, inputs[r]) = {}
                         THEN staged[r][column] = Null
                         ELSE \E l \in LookupMatches(c, inputs[r]) :
                                 staged[r][column] = l[c.output_column_identifier[2]]
    /\ (pc = "finalize_temporary_table" /\ result = Ok) =>
          \A c \in FieldKeyedLookups(table_mapper) :
              LET staged == database.staging[temporary_table].rows
                  target == database.tables[table_mapper.table_identifier]
                  column == MappedStagingColumn(column_graph, c.column_identifier)
              IN  \A r \in 1..Len(staged) : \E t \in 1..Len(target) :
                      /\ KeyEquals(table_mapper, column_graph, target[t], staged[r])
                      /\ target[t][c.column_identifier[2]] = staged[r][column]

\* MSFT was looked up to the ID of FR, NVDA found no country
C5_Witness ==
    /\ pc = "finalize_temporary_table" /\ result = Ok
    /\ table_mapper = CompaniesMapper
    /\ \E t \in 1..Len(database.tables["Company"]) :
           /\ database.tables["Company"][t].Code = "MSFT"
           /\ database.tables["Company"][t].CountryID = "1"
    /\ \E t \in 1..Len(database.tables["Company"]) :
           /\ database.tables["Company"][t].Code = "NVDA"
           /\ database.tables["Company"][t].CountryID = Null

(***************************************************************************)
(* C6: once a record could not be read or processed in a mapper, no        *)
(* further record is pulled, no statement but the end of the bulk insert   *)
(* and the DROP is issued, the import does not go on to another mapper and *)
(* the target tables stay as the earlier mappers left them; the import     *)
(* returns an error, and unless no_drop is set the DROP of the staging     *)
(* table of the mapper has been issued by then.                            *)
(***************************************************************************)
C6_RecordErrorAborts ==
    [][/\ insert_error # None =>
            /\ pulled' = pulled
            /\ mapper_index' = mapper_index
            /\ database'.tables = database.tables
            /\ \A i \in (Len(log) + 1)..Len(log') :
                   log'[i].op \in {"BULK_FINALIZE", "DROP"}
       /\ (insert_error' # None /\ pc' = "done") =>
            /\ ~returned'.ok
            /\ import_options.no_drop
                 \/ \E i \in 1..Len(log') :
                        log'[i].op = "DROP" /\ log'[i].mapper = mapper_index]_vars

\* the second mapper failed on a record after the first one had merged
C6_Witness ==
    /\ pc = "done"
    /\ insert_error # None
    /\ mapper_index = 2
    /\ database.tables # InitialTables
    /\ Issued(2, "DROP") # {}
    /\ Issued(2, "UPDATE") = {} /\ Issued(2, "MERGE") = {}

(***************************************************************************)
(* C7: after a record read or record processing error the bulk insert is   *)
(* finalized exactly once and execute_table_mapper returns that first      *)
(* error, whether or not the finalization of the bulk insert succeeds.     *)
(***************************************************************************)
C7_FirstErrorReturned ==
    (pc = "finalize_temporary_table" /\ insert_error # None) =>
        /\ Cardinality(Issued(mapper_index, "BULK_FINALIZE")) = 1
        /\ result = insert_error

(***************************************************************************)
(* C8: with no_merge set no MERGE is issued and the target tables are      *)
(* never changed.                                                          *)
(***************************************************************************)
C8_NoMergeLeavesTarget ==
    import_options.no_merge =>
        /\ \A i \in 1..Len(log) : log[i].op # "MERGE"
        /\ database.tables = InitialTables

(***************************************************************************)
(* C9: the statements of the mappers reach the server mapper by mapper in  *)
(* declaration order; when a statement of a mapper is issued, every        *)
(* earlier mapper has issued all its statements, all of them were          *)
(* accepted, its MERGE is among them and, unless no_drop is set, its DROP. *)
(***************************************************************************)
C9_MappersSerial ==
    /\ \A i, j \in 1..Len(log) : i < j => log[i].mapper <= log[j].mapper
    /\ \A j \in 1..Len(log) : \A m \in 1..(log[j].mapper - 1) :
           /\ \A i \in 1..Len(log) : log[i].mapper = m => log[i].ok
           /\ \E i \in Accepted(m, "MERGE") : i < j
           /\ ~import_options.no_drop => \E i \in Accepted(m, "DROP") : i < j
    /\ \A m \in 1..(mapper_index - 1) :
           /\ Accepted(m, "MERGE") # {}
           /\ ~import_options.no_drop => Accepted(m, "DROP") # {}

\* both mappers of a profile have issued statements
C9_Witness ==
    /\ pc = "done"
    /\ Len(import_profile) = 2
    /\ Accepted(1, "DROP") # {}
    /\ Issued(2, "MERGE") # {}

(***************************************************************************)
(* The inputs of a Lookup node                                             *)
(***************************************************************************)
\* the source fields and the static values that feed the node i
ReachableInputs(g, i) ==
    LET nodes == {g.node[a] : a \in Ancestors(g, {i}, {})}
    IN  {<<"field", n.column.field_name>> : n \in {x \in nodes : x.kind = "ParserColumn"}}
        \cup {<<"static", n.column.value>> : n \in {x \in nodes : x.kind = "StaticColumn"}}

(***************************************************************************)
(* C10: the column graph built with duplicate optimization and the one     *)
(* built without it are accepted or rejected alike, with the same error;   *)
(* every Lookup node of the optimized graph has the same reachable inputs  *)
(* in both; and a run on either graph can leave the same target contents.  *)
(***************************************************************************)
C10_OptimizationTransparent ==
    /\ (graph_optimized # None /\ graph_plain # None) =>
          /\ graph_optimized.ok = graph_plain.ok
          /\ ~graph_optimized.ok => graph_optimized.error = graph_plain.error
          /\ graph_optimized.ok =>
                \A i \in DOMAIN graph_optimized.graph.node :
                    graph_optimized.graph.node[i].kind = "LookupColumn" =>
                        ReachableInputs(graph_optimized.graph, i)
                            = ReachableInputs(graph_plain.graph, i)
    /\ (tables_optimized # None /\ tables_plain # None) =>
          tables_optimized.tables = tables_plain.tables

\* the verdict and the reachable inputs alone
C10_SameGraphVerdict ==
    (graph_optimized # None /\ graph_plain # None) =>
        /\ graph_optimized.ok = graph_plain.ok
        /\ ~graph_optimized.ok => graph_optimized.error = graph_plain.error
        /\ graph_optimized.ok =>
              \A i \in DOMAIN graph_optimized.graph.node :
                  graph_optimized.graph.node[i].kind = "LookupColumn" =>
                      ReachableInputs(graph_optimized.graph, i)
                          = ReachableInputs(graph_plain.graph, i)

(***************************************************************************)
(* Two Parser columns of one source field                                  *)
(***************************************************************************)
\* the pairs of Parser columns of the mapper that read the same field into
\* different target columns
SameFieldPairs(mapper) ==
    {p \in (DOMAIN mapper.columns) \X (DOMAIN mapper.columns) :
        /\ p[1] < p[2]
        /\ mapper.columns[p[1]].kind = "Parser" /\ mapper.columns[p[2]].kind = "Parser"
        /\ mapper.columns[p[1]].field_name = mapper.columns[p[2]].field_name
        /\ mapper.columns[p[1]].column_identifier # mapper.columns[p[2]].column_identifier}

\* the Parser nodes of the graph that read the field
ParserNodesOfField(g, field) ==
    {i \in DOMAIN g.node :
        g.node[i].kind = "ParserColumn" /\ g.node[i].column.field_name = field}

\* no two of the records have the same value in the key field
DistinctCodes(records) ==
    \A i, j \in DOMAIN records : records[i].Code = records[j].Code => i = j

(***************************************************************************)
(* C11, as the code has it: two Parser columns that read the same source   *)
(* field into two different target columns are not duplicates (the nodes   *)
(* differ in the column identifier), so with duplicate optimization the    *)
(* graph keeps one Parser node for each of them, every node with its own   *)
(* target column; the staging table has a column for each, and the MERGE   *)
(* writes both target columns from the field.                              *)
(***************************************************************************)
C11_SameFieldKeepsBothNodes ==
    \A p \in SameFieldPairs(table_mapper) :
        LET c1 == table_mapper.columns[p[1]]
            c2 == table_mapper.columns[p[2]]
        IN  /\ graph_optimized # None =>
                  /\ graph_optimized.ok
                  /\ \E i, j \in ParserNodesOfField(graph_optimized.graph, c1.field_name) :
                        /\ i # j
                        /\ graph_optimized.graph.node[i].column = c1
                        /\ graph_optimized.graph.node[j].column = c2
                  /\ Cardinality(ParserNodesOfField(graph_optimized.graph, c1.field_name)) = 2
                  /\ Len(TemporaryTableColumns(graph_optimized)) = Len(table_mapper.columns)
            /\ (tables_optimized # None /\ DistinctCodes(source_records)
                 /\ \A k \in DOMAIN source_records : c1.field_name \in DOMAIN source_records[k]) =>
                  \A t \in tables_optimized.tables :
                      \A k \in DOMAIN source_records :
                          \E r \in DOMAIN t[table_mapper.table_identifier] :
                              LET row == t[table_mapper.table_identifier][r]
                              IN  /\ row.Code = source_records[k].Code
                                  /\ row[c1.column_identifier[2]] = source_records[k][c1.field_name]
                                  /\ row[c2.column_identifier[2]] = source_records[k][c1.field_name]

\* a run of the mapper with one field in two target columns, two records
C11_Witness ==
    /\ SameFieldPairs(table_mapper) # {}
    /\ graph_optimized # None /\ tables_optimized # None
    /\ Len(source_records) = 2 /\ DistinctCodes(source_records)
    /\ \A k \in DOMAIN source_records : "Name" \in DOMAIN source_records[k]
    /\ \E t \in tables_optimized.tables : Len(t.Company) = 2

\* C11 as stated: the optimized graph has one Parser node for the two columns
C11_OneParserNode ==
    \A p \in SameFieldPairs(table_mapper) :
        graph_optimized # None =>
            /\ graph_optimized.ok
            /\ Cardinality(ParserNodesOfField(graph_optimized.graph,
                                               table_mapper.columns[p[1]].field_name)) = 1

(***************************************************************************)
(* What the profile declares about processed keys                          *)
(***************************************************************************)
\* the processed key columns of a column of the mapper
ProcessedKeysOf(c) ==
    IF c.kind # "Lookup" THEN {}
    ELSE {c.key_columns[k] : k \in {x \in DOMAIN c.key_columns :
                                        c.key_columns[x].kind = "ProcessedKey"}}

\* the columns of the mapper that carry the identifier id
ColumnsNamed(mapper, id) ==
    {j \in DOMAIN mapper.columns : mapper.columns[j].column_identifier = id}

\* the columns the lookup column i is keyed by through its processed keys
KeyedBy(mapper, i) ==
    UNION {ColumnsNamed(mapper, ColumnIdentifierOf(k)) :
              k \in ProcessedKeysOf(mapper.columns[i])}

RECURSIVE KeyedByClosure(_, _, _)
KeyedByClosure(mapper, frontier, seen) ==
    LET found == UNION {KeyedBy(mapper, i) : i \in frontier} \ seen
    IN  IF found = {} THEN seen ELSE KeyedByClosure(mapper, found, seen \cup found)

\* the lookup columns whose processed key chain leads back to themselves
ChainColumns(mapper) ==
    {i \in DOMAIN mapper.columns : i \in KeyedByClosure(mapper, {i}, {})}

\* every processed key of the mapper names a column of the mapper
AllKeysResolve(mapper) ==
    \A i \in DOMAIN mapper.columns : \A k \in ProcessedKeysOf(mapper.columns[i]) :
        ColumnsNamed(mapper, ColumnIdentifierOf(k)) # {}

Acyclic(g) == \A i \in DOMAIN g.node : i \notin Ancestors(g, {i}, {})

\* the verdict of ColumnGraph::new on the mapper is right about cycles
CycleVerdict(mapper, cg) ==
    /\ cg.ok => Acyclic(cg.graph)
    /\ (AllKeysResolve(mapper) /\ ChainColumns(mapper) # {}) =>
          /\ ~cg.ok
          /\ cg.error = "ColumnCycle"
          /\ cg.columns # {}
          /\ cg.columns \subseteq
                {mapper.columns[i].column_identifier : i \in ChainColumns(mapper)}

C13_ProcessedKeyFromMapperColumn ==
    graph_plain # None =>
        LET keys == UNION {ProcessedKeysOf(table_mapper.columns[i]) :
                              i \in DOMAIN table_mapper.columns}
            unknown == {k \in keys : ColumnsNamed(table_mapper, k.column_identifier) = {}}
        IN  /\ unknown # {} =>
                  /\ ~graph_plain.ok
                  /\ graph_plain.error = "ProcessedKeyColumnUnknownTargetColumn"
            /\ unknown = {} =>
                  (graph_plain.ok \/ graph_plain.error # "ProcessedKeyColumnUnknownTargetColumn")
            /\ graph_plain.ok =>
                  \A n \in ProcessedKeyNodes(graph_plain.graph) :
                      LET g == graph_plain.graph
                          incoming == {e \in DOMAIN g.edges : g.edges[e][2] = n}
                      IN  /\ Cardinality(incoming) = 1
                          /\ \A e \in incoming :
                                /\ g.edges[e][1] \notin g.dynamic
                                /\ g.node[g.edges[e][1]].kind \in
                                       {"StaticColumn", "ParserColumn", "LookupColumn"}
                                /\ NodeIdentifier(g.node[g.edges[e][1]])
                                       = g.node[n].column.column_identifier

(***************************************************************************)
(* What a delimited file says and what its stream yields                   *)
(***************************************************************************)
\* the stream of a delimited file was created and has been read to its end
DelimitedRead ==
    /\ file # None
    /\ file.kind = "delimited"
    /\ stream_pc = "ended"

\* the values of a record of the source, by position
ValuesOf(item) == [j \in DOMAIN item.fields.indices |-> StringMapValueAt(item.fields, j)]

\* what the k-th data row of the file is to yield, going by the header line
RowItem(header, row, k) ==
    IF Len(row) < Len(header) THEN ReadRecordError("TooFewFields", k)
    ELSE IF Len(row) > Len(header) THEN ReadRecordError("TooManyFields", k)
    ELSE [ok |-> TRUE, values |-> [j \in 1..Len(row) |-> [value |-> row[j]]],
          record_number |-> k]

\* an item of the source with the values of its fields in place of the map
ItemView(item) ==
    IF item.ok
    THEN [ok |-> TRUE, values |-> ValuesOf(item), record_number |-> item.record_number]
    ELSE item

\* C14: in a delimited stream every data row yields one item, the k-th row
\* the k-th; a row with fewer fields than the header line yields
\* TooFewFields and one with more yields TooManyFields, each with
\* record_number k; the rows after it are still yielded, with their own
\* field values.
C14_RowErrorsPerRecord ==
    DelimitedRead =>
        /\ Len(items) = Len(file.rows)
        /\ \A k \in 1..Len(file.rows) :
               ItemView(items[k]) = RowItem(file.header, file.rows[k], k)

\* the same for the files whose header line names no field twice
C14_DistinctHeader ==
    (DelimitedRead /\ Len(Dedup(file.header)) = Len(file.header)) =>
        /\ Len(items) = Len(file.rows)
        /\ \A k \in 1..Len(file.rows) :
               ItemView(items[k]) = RowItem(file.header, file.rows[k], k)

(***************************************************************************)
(* The record numbers of the items of a stream                             *)
(***************************************************************************)
\* a stream was created from the file
StreamOf(kind) ==
    /\ file # None
    /\ file.kind = kind
    /\ stream_pc \in {"ready", "ended", "panicked"}

\* how many of the first k items are records
RecordsUpTo(k) == Cardinality({j \in 1..k : items[j].ok})

\* C15: in a delimited stream the item of the k-th data row, a record or an
\* error, carries record_number k, so the records carry increasing numbers
\* that leave out the numbers of the rows in error; in an XML stream the
\* records carry 1, 2, 3, ... in document order and an error carries the
\* number of the last record before it (none before the first record),
\* without advancing it.
C15_RecordNumbers ==
    /\ StreamOf("delimited") =>
           /\ \A k \in 1..Len(items) : items[k].record_number = k
           /\ stream.record_number = Len(items)
    /\ StreamOf("xml") =>
           /\ \A k \in 1..Len(items) : items[k].record_number = RecordsUpTo(k)
           /\ stream.record_number = RecordsUpTo(Len(items))

\* a delimited stream has yielded a record after the error of a row
C15_Witness ==
    /\ StreamOf("delimited")
    /\ \E k \in 1..Len(items) : k > 1 /\ items[k].ok /\ ~items[k - 1].ok

\* C15 as stated: in every stream the records carry 1, 2, 3, ... in source
\* order, and an error does not advance the number
C15_RecordsNumberedConsecutively ==
    (StreamOf("delimited") \/ StreamOf("xml")) =>
        \A k \in 1..Len(items) : items[k].ok => items[k].record_number = RecordsUpTo(k)

(***************************************************************************)
(* A delimited file read in chunks and read in one piece                   *)
(***************************************************************************)
RECURSIVE Drain(_, _)

DrainPolled(polled, yielded) ==
    IF polled.item = None THEN yielded
    ELSE Drain(polled.stream, Append(yielded, polled.item))

\* the items of a delimited data source, polled to its end
Drain(data_source, yielded) == DrainPolled(DelimitedPoll(data_source), yielded)

\* an item of the source as its reader sees it: the names and the values
\* of the fields in their order and the record number, or the error
RecordView(item) ==
    IF item.ok
    THEN [ok |-> TRUE,
          fields |-> [j \in DOMAIN item.fields.indices |->
                         <<item.fields.indices[j][1], StringMapValueAt(item.fields, j)>>],
          record_number |-> item.record_number]
    ELSE item

RecordViews(yielded) == [k \in DOMAIN yielded |-> RecordView(yielded[k])]

\* the data source and the items of the file are those of the reference,
\* the same file behind a buffer that holds all of it
SameAsReference(reference) ==
    IF stream_pc = "failed" THEN stream = reference
    ELSE /\ "ok" \in DOMAIN reference
         /\ reference.ok
         /\ stream.fields = reference.stream.fields
         /\ RecordViews(items) = RecordViews(Drain(reference.stream, <<>>))

\* C16: whatever the size of the reader's buffer, a delimited file gives
\* the header fields, or the creation error, and the sequence of items,
\* records with field names, values and record numbers and errors, that it
\* gives when it is read in one piece.
C16_ChunkingInvariant ==
    (file # None /\ file.kind = "delimited" /\ stream_pc \in {"failed", "ended"}) =>
        SameAsReference(DelimitedDataSourceNew(file.bytes, Len(file.bytes), file.fields))

\* a file of a record and an error was read to its end a byte at a time
C16_Witness ==
    /\ DelimitedRead
    /\ file.buf_size = 1
    /\ \E j, k \in 1..Len(items) : items[j].ok /\ ~items[k].ok

(***************************************************************************)
(* The header line and the field group                                     *)
(***************************************************************************)
\* the fields of the field group that the header line of the file lacks
AbsentFields ==
    FilterSeq(file.fields, [k \in 1..Len(file.fields) |->
                               \A j \in 1..Len(file.header) : file.header[j] # file.fields[k]])

\* the bytes of the file behind its header line
BehindHeader ==
    SubSeq(file.bytes, Len(Join(file.header, Comma)) + 2, Len(file.bytes))

\* C17: creating a delimited data source fails with MissingFields when the
\* header line lacks a field of the field group, and the error lists all
\* the fields it lacks in the order of the field group; it succeeds exactly
\* when no field is lacking, and then the header line is all that was read
\* of the file: no data record was read, every byte behind the header line
\* is still to come.
C17_MissingFields ==
    (file # None /\ file.kind = "delimited" /\ stream_pc # "new") =>
        /\ stream_pc # "panicked"
        /\ stream_pc = "failed" <=> AbsentFields # <<>>
        /\ stream_pc = "failed" =>
               /\ stream = [ok |-> FALSE, error |-> "MissingFields", fields |-> AbsentFields]
               /\ items = <<>>
        /\ (stream_pc = "ready" /\ stream.record_number = 0) =>
               /\ items = <<>>
               /\ stream.buf_reader.buffer \o stream.buf_reader.rest = BehindHeader
               /\ stream.record_buffer.output_used = 0
               /\ stream.record_buffer.ends_used = 0

\* the creation failed for a header line that lacks two fields
C17_Witness ==
    /\ file # None
    /\ file.kind = "delimited"
    /\ stream_pc = "failed"
    /\ Len(stream.fields) = 2
    /\ file.rows # <<>>

(***************************************************************************)
(* What an XML document says: the elements that are open, by the events    *)
(***************************************************************************)
RECURSIVE OpenElements(_)
\* the names of the elements that are open after the events, outermost first
OpenElements(events) ==
    IF events = <<>> THEN <<>>
    ELSE IF events[Len(events)].type = "Start"
    THEN Append(OpenElements(SubSeq(events, 1, Len(events) - 1)), events[Len(events)].name)
    ELSE IF events[Len(events)].type = "End"
    THEN SubSeq(OpenElements(SubSeq(events, 1, Len(events) - 1)), 1,
                Len(OpenElements(SubSeq(events, 1, Len(events) - 1))) - 1)
    ELSE OpenElements(SubSeq(events, 1, Len(events) - 1))

\* the events of the document that the stream has read
EventsRead == SubSeq(file.events, 1, Len(file.events) - Len(stream.events))

\* the depth of the i-th event of the document, of a start tag the depth
\* of the element it opens
DepthOf(i) == Len(OpenElements(SubSeq(file.events, 1, i)))

\* what the claim says a start tag of a name at a depth yields
StartTagVerdict(name, depth, selector, fields) ==
    IF depth <= Len(selector)
    THEN (IF name # selector[depth] THEN "UnexpectedStartTag" ELSE "none")
    ELSE IF depth = Len(selector) + 1 /\ name \notin Range(fields) THEN "UnknownField"
    ELSE "none"

\* the verdicts on the first n events of the document
Verdicts(n) ==
    [i \in 1..n |->
        IF file.events[i].type = "Start"
        THEN StartTagVerdict(file.events[i].name, DepthOf(i), NonEmpty(file.selector),
                             file.fields)
        ELSE "none"]

\* the errors that the start tags among the first n events are to yield
StartTagErrors(n) ==
    FilterSeq(Verdicts(n), [i \in 1..n |-> Verdicts(n)[i] # "none"])

\* the errors among the items, in order
ErrorsOf(yielded) ==
    [k \in 1..Len(FilterSeq(yielded, [j \in 1..Len(yielded) |-> ~yielded[j].ok])) |->
        FilterSeq(yielded, [j \in 1..Len(yielded) |-> ~yielded[j].ok])[k].error]

\* C18: the errors of an XML stream are, in document order, those of its
\* start tags: UnexpectedStartTag for a start tag at a depth up to the
\* length of the selector that differs from the selector part of its depth,
\* UnknownField for one at the depth below the selector that names no
\* declared field.  A matching start tag yields nothing and opens the next
\* level only: a value is being captured only inside an element at the
\* depth below the selector that names a declared field, the field being
\* captured.
C18_StartTags ==
    StreamOf("xml") =>
        /\ stream.depth = Len(OpenElements(EventsRead))
        /\ ErrorsOf(items) = StartTagErrors(Len(EventsRead))
        /\ stream.current_record_state.field_index # 0 =>
               /\ stream.depth > Len(stream.selector_parts)
               /\ OpenElements(EventsRead)[Len(stream.selector_parts) + 1]
                      = stream.fields[stream.current_record_state.field_index]

\* a stream has yielded the error of a start tag that is not the selector's
\* and the error of one that names no field
C18_Witness ==
    /\ StreamOf("xml")
    /\ \E j, k \in 1..Len(items) :
           /\ ~items[j].ok /\ items[j].error = "UnexpectedStartTag"
           /\ ~items[k].ok /\ items[k].error = "UnknownField"
    /\ \E k \in 1..Len(items) : items[k].ok

(***************************************************************************)
(* What an XML document says: its records                                  *)
(***************************************************************************)
\* the place of the end tag of the element that the events begin with
CloseOf(events) == Min({i \in 1..Len(events) : OpenElements(SubSeq(events, 1, i)) = <<>>})

RECURSIVE Children(_)
\* the elements among the events, each with its name and its content
Children(events) ==
    IF events = <<>> THEN <<>>
    ELSE IF events[1].type # "Start" THEN Children(Tail(events))
    ELSE <<[name |-> events[1].name, content |-> SubSeq(events, 2, CloseOf(events) - 1)]>>
             \o Children(SubSeq(events, CloseOf(events) + 1, Len(events)))

RECURSIVE Markup(_)
\* the events as text
Markup(events) ==
    IF events = <<>> THEN <<>>
    ELSE (CASE events[1].type = "Start" -> <<"<">> \o events[1].name \o <<">">>
            [] events[1].type = "End" -> <<"<", "/">> \o events[1].name \o <<">">>
            [] OTHER -> events[1].text) \o Markup(Tail(events))

\* the field elements of a record element
FieldsOf(record_element) == Children(SubSeq(record_element, 2, Len(record_element) - 1))

FieldNamesOf(record_element) ==
    [j \in 1..Len(FieldsOf(record_element)) |-> FieldsOf(record_element)[j].name]

\* the document is of the selector and its records use declared fields only
Conforming ==
    /\ file # None
    /\ file.kind = "xml"
    /\ NonEmpty(file.selector) = <<file.root, Item>>
    /\ \A k \in 1..Len(file.records) :
           /\ file.records[k][1].name = Item
           /\ \A j \in 1..Len(FieldsOf(file.records[k])) :
                  FieldsOf(file.records[k])[j].name \in Range(file.fields)

\* the record is that of the record element: its fields are the fields of
\* the element in the order they are first met, and a field that the
\* element holds once has the content of its element as its value
RecordOfElement(item, record_element) ==
    /\ item.ok
    /\ [j \in DOMAIN item.fields.indices |-> item.fields.indices[j][1]]
           = Dedup(FieldNamesOf(record_element))
    /\ \A j \in 1..Len(FieldsOf(record_element)) :
           Cardinality({i \in 1..Len(FieldsOf(record_element)) :
                           FieldsOf(record_element)[i].name
                               = FieldsOf(record_element)[j].name}) = 1
           => StringMapGet(item.fields, FieldsOf(record_element)[j].name)
                  = [value |-> Markup(FieldsOf(record_element)[j].content)]

\* C19: a document of the selector whose records use declared fields only
\* yields one record for every record element, in document order and
\* numbered 1..n, with the fields in the order they are met and each value
\* the content of its field element, nothing of another record in it.
C19_RecordsOfDocument ==
    (Conforming /\ stream_pc \in {"ended", "panicked"}) =>
        /\ stream_pc = "ended"
        /\ Len(items) = Len(file.records)
        /\ \A k \in 1..Len(file.records) :
               /\ items[k].record_number = k
               /\ RecordOfElement(items[k], file.records[k])

\* the same for the documents whose records hold no field twice
C19_NoFieldTwice ==
    (/\ Conforming
     /\ stream_pc \in {"ended", "panicked"}
     /\ \A k \in 1..Len(file.records) :
            Len(Dedup(FieldNamesOf(file.records[k]))) = Len(FieldNamesOf(file.records[k])))
    => /\ stream_pc = "ended"
       /\ Len(items) = Len(file.records)
       /\ \A k \in 1..Len(file.records) :
              /\ items[k].record_number = k
              /\ RecordOfElement(items[k], file.records[k])

(***************************************************************************)
(* The records of the source and the items of the prepared stream          *)
(***************************************************************************)
\* what an item of the source is to become behind the preprocess transform
Preprocessed(item) ==
    IF ~item.ok THEN <<item>>
    ELSE CASE PreprocessTransform(item).kind = "Some" -> <<PreprocessTransform(item).record>>
           [] PreprocessTransform(item).kind = "None" -> <<>>
           [] OTHER -> <<ReadRecordError("PreprocessReadRecordError", item.record_number)>>

\* the source behind the stream has nothing left to yield
SourceExhausted ==
    IF file.kind = "delimited"
    THEN stream.buf_reader.buffer = <<>> /\ stream.buf_reader.rest = <<>>
    ELSE stream.events = <<>>

\* C20: with a preprocess transform the prepared stream yields, in source
\* order, the records the transform returns as Some, nothing for a record
\* it returns None for, an error with the record's own record_number for a
\* record it fails on, and the errors of the source as they are; without
\* one it yields the items of the source.  It ends only when the source
\* has ended, not at a record that is dropped.
C20_PreprocessedStream ==
    (StreamOf("delimited") \/ StreamOf("xml")) =>
        /\ file.preprocess_transform =>
               delivered = Concat([k \in 1..Len(items) |-> Preprocessed(items[k])])
        /\ ~file.preprocess_transform => delivered = items
        /\ stream_pc = "ended" => SourceExhausted

\* the stream has dropped a record and yielded the error of the transform
\* for a later one
C20_Witness ==
    /\ StreamOf("delimited")
    /\ file.preprocess_transform
    /\ Len(items) > 1
    /\ items[1].ok
    /\ PreprocessTransform(items[1]).kind = "None"
    /\ delivered # <<>>
    /\ delivered[Len(delivered)]
           = ReadRecordError("PreprocessReadRecordError", Len(items))
(***************************************************************************)
(* insert_processor.rs: one record, one row                                *)
(***************************************************************************)
\* the group-0 columns of the insert processor with the field each reads
FirstGroupField(k) ==
    column_graph.graph.node[InsertTargetColumns(column_graph)[k]].column.field_name

FirstGroupMissing ==
    {k \in 1..Len(InsertTargetColumns(column_graph)) : FirstGroupField(k) \notin DOMAIN record}

FirstGroupSupported ==
    \A k \in 1..Len(InsertTargetColumns(column_graph)) :
        column_graph.metadata[InsertTargetColumns(column_graph)[k]].ty \in SupportedTypes

\* C21: process_record, over group-0 columns whose types it has a cell for,
\* sends exactly one row with one cell per group-0 column in column order
\* when the record has the field of every group-0 column; when a field is
\* missing it returns RecordMissingField with the first missing field and
\* its column, and nothing is sent for the record, not even a partial row.
C21_OneRowPerRecord ==
    [][(pc = "process_record" /\ FirstGroupSupported) =>
        IF FirstGroupMissing = {}
        THEN /\ Len(log') = Len(log) + 1
             /\ log'[Len(log')].op = "BULK_ROW"
             /\ log'[Len(log')].input = record
             /\ log'[Len(log')].ok =>
                   /\ Len(bulk_insert'.rows) = Len(bulk_insert.rows) + 1
                   /\ SubSeq(bulk_insert'.rows, 1, Len(bulk_insert.rows)) = bulk_insert.rows
                   /\ LET row == bulk_insert'.rows[Len(bulk_insert'.rows)]
                      IN  /\ Len(row) = Len(InsertTargetColumns(column_graph))
                          /\ \A k \in 1..Len(row) :
                                row[k] = ColumnData(
                                    column_graph.metadata[
                                        InsertTargetColumns(column_graph)[k]].ty,
                                    record[FirstGroupField(k)])
             /\ ~log'[Len(log')].ok => bulk_insert' = bulk_insert
        ELSE /\ log' = log
             /\ bulk_insert' = bulk_insert
             /\ insert_error' = [ok |-> FALSE, error |-> "ExecuteRecordFailed",
                                 source |-> "RecordMissingField"]
             /\ LET outcome == process_record(column_graph, record)
                    first == InsertTargetColumns(column_graph)[Min(FirstGroupMissing)]
                IN  /\ outcome.outcome = "RecordMissingField"
                    /\ outcome.field = FirstGroupField(Min(FirstGroupMissing))
                    /\ outcome.column = NodeIdentifier(column_graph.graph.node[first])
    ]_vars

\* a record without the field of a group-0 column has been refused after a
\* complete record was sent as a row of three cells
C21_Witness ==
    /\ pc = "finalize_insert"
    /\ insert_error = [ok |-> FALSE, error |-> "ExecuteRecordFailed",
                       source |-> "RecordMissingField"]
    /\ Len(bulk_insert.rows) = 1
    /\ Len(bulk_insert.rows[1]) = 3
    /\ "Country" \notin DOMAIN record

(***************************************************************************)
(* insert_processor.rs: a text that does not parse is NULL                 *)
(***************************************************************************)
\* the number a text denotes lies in the range of the integer type
InRangeOf(ty, field_value) ==
    /\ field_value \in DOMAIN IntegerValue
    /\ ty = "Int1" => (0 <= IntegerValue[field_value] /\ IntegerValue[field_value] <= 255)
    /\ ty = "Int4" => (-2147483647 - 1 <= IntegerValue[field_value]
                       /\ IntegerValue[field_value] <= 2147483647)

UnsupportedColumnReached ==
    \E k \in 1..Len(InsertTargetColumns(column_graph)) :
        /\ column_graph.metadata[InsertTargetColumns(column_graph)[k]].ty \notin SupportedTypes
        /\ \A j \in 1..k : FirstGroupField(j) \in DOMAIN record

\* C23: a group-0 staging column of an unsupported SQL type met by
\* process_record, or a Static value that cannot be coerced while the UPDATE
\* parameters are bound, ends the table mapper with an error value: the run
\* goes on to finalize the staging table and does not abort.
C23_CoercionFailureIsAnError ==
    [][/\ (pc = "process_record" /\ UnsupportedColumnReached)
            => (pc' = "finalize_insert" /\ insert_error' # None /\ ~insert_error'.ok)
       /\ (pc = "update"
              /\ UpdateStatement(column_graph, temporary_table,
                                 column_graph.groups[group_index]).kind = "panic")
            => (pc' = "finalize_temporary_table" /\ ~result'.ok)
    ]_vars

(***************************************************************************)
(* identifier.rs: parsing and normalization                                *)
(***************************************************************************)
\* a part in brackets: as it is when it has them, wrapped when it has not
Bracketed(part) ==
    IF Len(part) >= 2 /\ part[1] = "[" /\ part[Len(part)] = "]" THEN part
    ELSE <<"[">> \o part \o <<"]">>

\* the normalized bracketed form of a text: every part in brackets, the
\* schema [dbo] in front of a Table or Column text that names no schema
NormalizedForm(kind, text) ==
    LET parts == [k \in 1..Len(Split(text)) |-> Bracketed(Split(text)[k])]
    IN  IF kind \in {"Database", "Schema"} THEN Bracketed(text)
        ELSE IF (kind = "Table" /\ Len(parts) = 1) \/ (kind = "Column" /\ Len(parts) = 2)
        THEN Join(<<Dbo>> \o parts, ".")
        ELSE Join(parts, ".")

\* C24: for every text that parses as a Database, Schema, Table or Column
\* identifier, full() is the normalized bracketed form of the text, and
\* parsing full() again gives the same identifier.
C24_NormalizationIdempotent ==
    (Len(identifiers) >= 1 /\ identifiers[1].ok) =>
        /\ identifiers[1].full = NormalizedForm(identifier_kind, identifier_text)
        /\ Len(identifiers) = 2 => identifiers[2] = identifiers[1]

\* a Column text of two parts, one in brackets and one not, was parsed and
\* its full() parsed again
C24_Witness ==
    /\ identifier_kind = "Column"
    /\ identifier_text = <<"[", "a", "]", ".", "b", "#">>
    /\ Len(identifiers) = 2
    /\ identifiers[2].ok
    /\ identifiers[2].full =
          <<"[", "d", "b", "o", "]", ".", "[", "a", "]", ".", "[", "b", "#", "]">>

\* the characters of a part other than its brackets are alphanumerics or @$#_
PlainCharacters(part) ==
    \A i \in 1..Len(part) : part[i] \in Alphanumeric \cup SpecialCharacters

StartsBracketed(part) == Len(part) >= 1 /\ part[1] = "["

EndsBracketed(part) == Len(part) >= 1 /\ part[Len(part)] = "]"

Interior(part) ==
    SubSeq(part, IF StartsBracketed(part) THEN 2 ELSE 1,
                 IF EndsBracketed(part) THEN Len(part) - 1 ELSE Len(part))

\* what the rules for one part say of a part, given what came of it
PartRules(part, normalized) ==
    /\ (~StartsBracketed(part) /\ ~EndsBracketed(part) /\ PlainCharacters(part))
          => (normalized.ok /\ normalized.full = <<"[">> \o part \o <<"]">>)
    /\ (~StartsBracketed(part) /\ ~EndsBracketed(part) /\ ~PlainCharacters(part))
          => (~normalized.ok /\ normalized.error = "InvalidCharacter")
    /\ (StartsBracketed(part) # EndsBracketed(part) /\ PlainCharacters(Interior(part)))
          => (~normalized.ok /\ normalized.error = "InvalidBrackets")

\* a part in brackets is taken as it is, whatever is between the brackets
BracketedVerbatim(part, normalized) ==
    (Len(part) >= 2 /\ StartsBracketed(part) /\ EndsBracketed(part))
        => (normalized.ok /\ normalized.full = part)

\* a text of parts that are all plain, with too few or too many of them
PartCountRules(kind, text, parsed) ==
    LET parts == Split(text)
        wanted == IF kind = "Table" THEN 2 ELSE 3
    IN  (\A k \in 1..Len(parts) : PlainCharacters(parts[k])) =>
            /\ Len(parts) > wanted => (~parsed.ok /\ parsed.error = "TooManyParts")
            /\ Len(parts) < wanted - 1 => (~parsed.ok /\ parsed.error = "TooFewParts")
            /\ Len(parts) \in {wanted - 1, wanted} => parsed.ok

\* C25 without its clause on bracketed parts: a plain part is wrapped in
\* brackets, a character outside the set in a part without brackets is
\* InvalidCharacter, one bracket of the two is InvalidBrackets, and a Table
\* or Column text with too many or too few parts is TooManyParts or
\* TooFewParts.
C25_PlainParts ==
    Len(identifiers) >= 1 =>
        /\ identifier_kind \in {"Database", "Schema"}
              => PartRules(identifier_text, identifiers[1])
        /\ identifier_kind \in {"Table", "Column"}
              => PartCountRules(identifier_kind, identifier_text, identifiers[1])

\* C25: normalize_identifier_part wraps a part of alphanumerics or @$#_ in
\* brackets, takes a part that is already in brackets as it is whatever
\* characters are between the brackets, rejects another character in a part
\* without brackets with InvalidCharacter and a part with one of the two
\* brackets with InvalidBrackets; a text with too few or too many parts is
\* rejected with TooFewParts or TooManyParts.
C25_PartsNormalized ==
    Len(identifiers) >= 1 =>
        /\ identifier_kind \in {"Database", "Schema"}
              => /\ PartRules(identifier_text, identifiers[1])
                 /\ BracketedVerbatim(identifier_text, identifiers[1])
        /\ identifier_kind \in {"Table", "Column"}
              => PartCountRules(identifier_kind, identifier_text, identifiers[1])

(***************************************************************************)
(* merge_processor.rs: the key columns                                     *)
(***************************************************************************)
\* the nodes of the column graph of the table mapper with an identifier
NodesNamed(identifier) ==
    {i \in DOMAIN column_graph.graph.node :
        NodeIdentifier(column_graph.graph.node[i]) = identifier}

\* those of them whose map flag is set: the target columns
TargetsNamed(identifier) ==
    {i \in NodesNamed(identifier) : NodeMap(column_graph.graph.node[i])}

MergeOfMapper ==
    MergeStatement(column_graph, table_mapper.table_identifier, temporary_table,
                   table_mapper.key_columns)

\* the ON clause has the key resolved to one of the given nodes
ResolvedAmong(key, nodes) ==
    \E k \in 1..Len(MergeOfMapper.on_key_columns) :
        /\ MergeOfMapper.on_key_columns[k].key_column = key[2]
        /\ \E i \in nodes :
              MergeOfMapper.on_key_columns[k].column = column_graph.unique_identifiers[i]

\* C26, as the code has it: the merge processor fails with
\* KeyColumnUnknownTargetColumn exactly when the identifier of a declared
\* key column is the identifier of no target column, that is of no graph
\* node whose map flag is set; otherwise every key is resolved to a target
\* column of its identifier and used in the ON clause.
C26_KeyIsATargetColumn ==
    pc = "merge" =>
        /\ MergeOfMapper.kind = "KeyColumnUnknownTargetColumn"
              <=> (\E k \in 1..Len(table_mapper.key_columns) :
                      TargetsNamed(table_mapper.key_columns[k]) = {})
        /\ MergeOfMapper.kind = "MERGE" =>
              \A k \in 1..Len(table_mapper.key_columns) :
                  ResolvedAmong(table_mapper.key_columns[k],
                                TargetsNamed(table_mapper.key_columns[k]))

\* the merge of a mapper failed for a key column that a node of the graph
\* carries, with its map flag not set
C26_Witness ==
    /\ pc = "finalize_temporary_table"
    /\ result = [ok |-> FALSE, error |-> "MergeProcessor",
                 source |-> "KeyColumnUnknownTargetColumn"]
    /\ NodesNamed(table_mapper.key_columns[1]) # {}
    /\ TargetsNamed(table_mapper.key_columns[1]) = {}

\* C26: the merge processor fails with KeyColumnUnknownTargetColumn exactly
\* when the identifier of a declared key column is the identifier of no node
\* of the column graph; whenever some node has it, whatever its map flag,
\* the key is resolved to it and used in the ON clause.
C26_KeyIsAnyNode ==
    pc = "merge" =>
        /\ MergeOfMapper.kind = "KeyColumnUnknownTargetColumn"
              <=> (\E k \in 1..Len(table_mapper.key_columns) :
                      NodesNamed(table_mapper.key_columns[k]) = {})
        /\ MergeOfMapper.kind = "MERGE" =>
              \A k \in 1..Len(table_mapper.key_columns) :
                  ResolvedAmong(table_mapper.key_columns[k],
                                NodesNamed(table_mapper.key_columns[k]))

(***************************************************************************)
(* merge_processor.rs: identity columns and key columns                    *)
(***************************************************************************)
\* the target columns of the table mapper for which a test holds, by the
\* part of their identifier and by their staging identifier
TargetParts(test(_)) ==
    {NodeIdentifier(column_graph.graph.node[i])[2] :
        i \in {j \in Range(target_columns(column_graph)) : test(j)}}

TargetStaging(test(_)) ==
    {column_graph.unique_identifiers[i] :
        i \in {j \in Range(target_columns(column_graph)) : test(j)}}

SetTargets ==
    {MergeOfMapper.set_update_columns[k].target_column :
        k \in 1..Len(MergeOfMapper.set_update_columns)}

SetStaging ==
    {MergeOfMapper.set_update_columns[k].temporary_column :
        k \in 1..Len(MergeOfMapper.set_update_columns)}

\* no column for which the test holds is in the SET list, the INSERT column
\* list or the VALUES list, and no key column is in the SET list
IdentityAndKeysLeftOut(test(_)) ==
    /\ SetStaging \cap TargetStaging(test) = {}
    /\ Range(MergeOfMapper.insert_columns_target) \cap TargetParts(test) = {}
    /\ Range(MergeOfMapper.insert_columns_temporary) \cap TargetStaging(test) = {}
    /\ SetTargets \cap {table_mapper.key_columns[k][2] :
                           k \in 1..Len(table_mapper.key_columns)} = {}

FlagsIncludeIdentity(i) == "Identity" \in column_graph.metadata[i].flags

\* C27: in every MERGE a column whose metadata flags include Identity, alone
\* or together with other flags, is neither in the UPDATE SET list nor in
\* the INSERT column list nor in the VALUES list, and a declared key column
\* is never in the UPDATE SET list.
C27_IdentityLeftOut ==
    (pc = "merge" /\ MergeOfMapper.kind = "MERGE")
        => IdentityAndKeysLeftOut(FlagsIncludeIdentity)

(***************************************************************************)
(* temporary_table.rs: the columns of the staging table                    *)
(***************************************************************************)
StagingColumns == database.staging[temporary_table].columns

NonTransientNodes ==
    {i \in DOMAIN column_graph.graph.node : ~is_transient(column_graph.graph.node[i])}

StagingColumnsOf(i) ==
    {k \in 1..Len(StagingColumns) :
        StagingColumns[k].name = column_graph.unique_identifiers[i]}

InFirstGroup(i) == i \in Range(column_graph.groups[1])

\* C28: the staging table created for a table mapper has exactly one column
\* for every non-transient node of the column graph and no other column,
\* named by the unique staging identifier of the node, and the column is
\* declared NULL if and only if the metadata of the node is nullable or the
\* node is in a group after the first; otherwise it is NOT NULL.
C28_StagingColumns ==
    pc = "insert_processor" =>
        /\ Len(StagingColumns) = Cardinality(NonTransientNodes)
        /\ \A i \in NonTransientNodes :
              /\ Cardinality(StagingColumnsOf(i)) = 1
              /\ \A k \in StagingColumnsOf(i) :
                    StagingColumns[k].nullable
                        <=> ("Nullable" \in column_graph.metadata[i].flags \/ ~InFirstGroup(i))

\* a staging table with a NOT NULL column, a column that is NULL for its
\* metadata, a column that is NULL only for its group, and a graph with a
\* transient node that has no column
C28_Witness ==
    /\ pc = "insert_processor"
    /\ \E i \in NonTransientNodes : \E k \in StagingColumnsOf(i) :
          ~StagingColumns[k].nullable
    /\ \E i \in NonTransientNodes : \E k \in StagingColumnsOf(i) :
          InFirstGroup(i) /\ StagingColumns[k].nullable
    /\ \E i \in NonTransientNodes : \E k \in StagingColumnsOf(i) :
          /\ ~InFirstGroup(i)
          /\ "Nullable" \notin column_graph.metadata[i].flags
          /\ StagingColumns[k].nullable
    /\ NonTransientNodes # DOMAIN column_graph.graph.node

(***************************************************************************)
(* column_graph.rs: the metadata of a column the server does not report    *)
(***************************************************************************)
\* the nodes whose column is not among the columns the server reports for
\* the table of the column
NodesWithoutServerMetadata ==
    {i \in DOMAIN column_graph.graph.node :
        LET id == NodeIdentifier(column_graph.graph.node[i])
        IN  id \notin DOMAIN ServerMetadata[id[1]]}

C30_FirstGroupIsParser ==
    (column_graph # None /\ column_graph.ok) =>
        /\ \A k \in 1..Len(column_graph.groups[1]) :
              column_graph.graph.node[column_graph.groups[1][k]].kind = "ParserColumn"
        /\ ~InsertProcessorUnreachable(column_graph)

(***************************************************************************)
(* column_graph.rs:274-276, 384-395: the groups of a built graph           *)
(***************************************************************************)
\* the index of the group that holds the node i
GroupOf(cg, i) == CHOOSE k \in DOMAIN cg.groups : i \in Range(cg.groups[k])

\* the four parts of the grouping, for one built graph
EagerGrouping(cg) ==
    LET nodes == DOMAIN cg.graph.node
    IN  /\ \A k \in DOMAIN cg.groups :
              /\ cg.groups[k] # <<>>
              /\ Range(cg.groups[k]) \subseteq nodes
        /\ \A i \in nodes :
              /\ \E k \in DOMAIN cg.groups : i \in Range(cg.groups[k])
              /\ \A k, l \in DOMAIN cg.groups :
                    (i \in Range(cg.groups[k]) /\ i \in Range(cg.groups[l])) => k = l
              /\ \A k \in DOMAIN cg.groups :
                    Cardinality({q \in DOMAIN cg.groups[k] : cg.groups[k][q] = i}) <= 1
        /\ cg.groups # <<>> =>
              Range(cg.groups[1]) = {i \in nodes : Predecessors(cg.graph, i) = {}}
        /\ \A e \in Range(cg.graph.edges) :
              GroupOf(cg, e[1]) < GroupOf(cg, e[2])
        /\ \A i \in nodes :
              Predecessors(cg.graph, i) # {} =>
                 \E u \in Predecessors(cg.graph, i) :
                     GroupOf(cg, u) = GroupOf(cg, i) - 1

WithoutMap(n) ==
    IF n.kind \in {"StaticColumn", "ParserColumn", "LookupColumn"}
    THEN [n EXCEPT !.map_column = FALSE, !.column.map_column = FALSE]
    ELSE n

\* the nodes of the graph g that equal the node i but for the map flag
SameButMap(g, i) ==
    {j \in DOMAIN g.node : WithoutMap(g.node[j]) = WithoutMap(g.node[i])}

\* the node that a group of g is collapsed into
KeptNode(g, i) == Min(SameButMap(g, i))

\* the optimized graph is the plain graph with every group of nodes that are
\* equal but for the map flag collapsed into its first node
CollapsedIgnoringMap(plain, optimized) ==
    /\ DOMAIN optimized.node = {KeptNode(plain, i) : i \in DOMAIN plain.node}
    /\ Range(optimized.edges) =
          {<<KeptNode(plain, e[1]), KeptNode(plain, e[2])>> : e \in Range(plain.edges)}
    /\ \A i \in DOMAIN optimized.node :
          NodeMap(optimized.node[i])
              = (\E j \in SameButMap(plain, i) : NodeMap(plain.node[j]))

\* C32: the duplicate optimization groups the nodes by variant and
\* identifying data and ignores the map flag: columns that differ only in
\* the map flag are collapsed into the first node, the edges of the removed
\* nodes go to the kept node, and the kept node is mappable exactly when a
\* node of its group was
C32_MapFlagIgnored ==
    (graph_optimized # None /\ graph_plain # None
        /\ graph_optimized.ok /\ graph_plain.ok) =>
        CollapsedIgnoringMap(graph_plain.graph, graph_optimized.graph)

\* the same with the groups the code forms: nodes that are equal, map flag
\* included
C32_EqualNodesCollapsed ==
    (graph_optimized # None /\ graph_plain # None
        /\ graph_optimized.ok /\ graph_plain.ok) =>
        LET plain == graph_plain.graph
            optimized == graph_optimized.graph
            kept(i) == Min(DuplicateGroupOf(plain, i))
        IN  /\ DOMAIN optimized.node = {kept(i) : i \in DOMAIN plain.node}
            /\ Range(optimized.edges) =
                  {<<kept(e[1]), kept(e[2])>> : e \in Range(plain.edges)}
            /\ \A i \in DOMAIN optimized.node :
                  NodeMap(optimized.node[i])
                      = (\E j \in DuplicateGroupOf(plain, i) : NodeMap(plain.node[j]))

(***************************************************************************)
(* column_graph.rs:309-340: the text of the unique identifiers             *)
(***************************************************************************)
\* the characters of the column names of the compared mappers
Characters ==
    ("Code" :> <<"C", "o", "d", "e">>)
    @@ ("Name" :> <<"N", "a", "m", "e">>)
    @@ ("Name_2" :> <<"N", "a", "m", "e", "_", "2">>)
    @@ ("CountryID" :> <<"C", "o", "u", "n", "t", "r", "y", "I", "D">>)
    @@ ("Peer" :> <<"P", "e", "e", "r">>)
    @@ ("ID" :> <<"I", "D">>)

\* Display for usize
RECURSIVE DecimalDigits(_)
DecimalDigits(n) ==
    LET digit == <<"0", "1", "2", "3", "4", "5", "6", "7", "8", "9">>[(n % 10) + 1]
    IN  IF n < 10 THEN <<digit>> ELSE Append(DecimalDigits(n \div 10), digit)

\* whether the text ends in _<digits>
EndsInIndex(text) ==
    \E k \in 1..(Len(text) - 1) :
        /\ text[k] = "_"
        /\ \A q \in (k + 1)..Len(text) :
              text[q] \in {"0", "1", "2", "3", "4", "5", "6", "7", "8", "9"}

\* a name that is left alone when it already ends in _<digits>
unique_name_keeping_ending(part_unescaped, index) ==
    IF EndsInIndex(part_unescaped) THEN part_unescaped
    ELSE part_unescaped \o <<"_">> \o DecimalDigits(index)

\* write!(&mut unique_name, "{}_{}", part_unescaped, column_index.index())
unique_name(part_unescaped, index) ==
    part_unescaped \o <<"_">> \o DecimalDigits(index)

\* the part of ColumnIdentifier::with_table(table, unique_name) for the
\* unique identifier u, or the error of the expect
UniqueIdentifierPart(u) ==
    normalize_identifier_part(unique_name(Characters[u.part_unescaped], u.index))

\* the unique identifiers of one built graph
UniqueIdentifiersDistinct(cg) ==
    /\ DOMAIN cg.unique_identifiers = DOMAIN cg.graph.node
    /\ \A i \in DOMAIN cg.graph.node :
          LET u == cg.unique_identifiers[i]
          IN  /\ u.index = i
              /\ u.table = NodeIdentifier(cg.graph.node[i])[1]
              /\ u.part_unescaped = NodeIdentifier(cg.graph.node[i])[2]
              /\ UniqueIdentifierPart(u).ok
              /\ UniqueIdentifierPart(u).part =
                    <<"[">> \o Characters[NodeIdentifier(cg.graph.node[i])[2]]
                        \o <<"_">> \o DecimalDigits(i) \o <<"]">>
    /\ \A i, j \in DOMAIN cg.graph.node :
          i # j => UniqueIdentifierPart(cg.unique_identifiers[i])
                       # UniqueIdentifierPart(cg.unique_identifiers[j])

\* C33: in a built graph, with and without the duplicate optimization, the
\* unique identifiers of the surviving nodes are pairwise distinct, and each
\* is the unescaped column part of its node, then _ and the index of the
\* node, in brackets
C33_UniqueIdentifiers ==
    /\ (graph_optimized # None /\ graph_optimized.ok) =>
          UniqueIdentifiersDistinct(graph_optimized)
    /\ (graph_plain # None /\ graph_plain.ok) => UniqueIdentifiersDistinct(graph_plain)

\* a graph with a column named Name_2 and the column Name at the index 2
C33_Witness ==
    /\ graph_plain # None /\ graph_plain.ok
    /\ graph_optimized # None /\ graph_optimized.ok
    /\ \E i, j \in DOMAIN graph_optimized.graph.node :
          /\ EndsInIndex(Characters[graph_optimized.unique_identifiers[i].part_unescaped])
          /\ Characters[graph_optimized.unique_identifiers[i].part_unescaped] =
                unique_name(Characters[graph_optimized.unique_identifiers[j].part_unescaped], j)

(***************************************************************************)
(* update_processor.rs:48-102: the dependencies of a lookup                *)
(***************************************************************************)
\* the node at which the chain of first incoming edges from index ends
RECURSIVE ChainEnd(_, _)
ChainEnd(cg, index) ==
    IF column_dependencies(cg, index) = <<>> THEN index
    ELSE ChainEnd(cg, Head(column_dependencies(cg, index)))

\* the key nodes of the lookup node whose chain meets no non-transient node
\* and ends in a Static column
StaticKeys(cg, lookup) ==
    {k \in Range(column_dependencies(cg, lookup)) :
        /\ FindNonTransient(cg, k) = -1
        /\ cg.graph.node[ChainEnd(cg, k)].kind = "StaticColumn"}

\* the UPDATEs of the groups after the first of a built graph
UpdateStatements(cg) ==
    {UpdateStatement(cg, "staging", cg.groups[g]) : g \in 2..Len(cg.groups)}

\* the static keys of every lookup are conditions on a parameter that is
\* bound to the value of the Static column, the other keys are conditions on
\* the staging column of a node that is not transient
StaticKeysAreParameters(cg) ==
    \A statement \in UpdateStatements(cg) :
        /\ statement.kind # "panic"
        /\ statement.kind = "UPDATE" =>
             \A j \in 1..Len(statement.lookups) :
                LET l == statement.lookups[j]
                    lookup == l.target_column.index
                IN  /\ Len(l.static_conditions) = Cardinality(StaticKeys(cg, lookup))
                    /\ \A k \in StaticKeys(cg, lookup) :
                          \E c \in Range(l.static_conditions) :
                              /\ c.key = NodeIdentifier(cg.graph.node[k])[2]
                              /\ c.placeholder + 1 \in DOMAIN statement.parameters
                              /\ statement.parameters[c.placeholder + 1]
                                    = cg.graph.node[ChainEnd(cg, k)].column.value
                    /\ \A c \in Range(l.column_conditions) :
                          ~is_transient(cg.graph.node[c.dependency.index])

\* C34: every key of a Lookup is resolved to the first non-transient node on
\* the chain of incoming edges from the key node, and a key whose chain ends
\* in a Static column is a static dependency: its condition is a positional
\* parameter bound to the value of the Static column and no reference to a
\* staging column
C34_StaticKeyIsParameter ==
    /\ (graph_optimized # None /\ graph_optimized.ok) =>
          StaticKeysAreParameters(graph_optimized)
    /\ (graph_plain # None /\ graph_plain.ok) => StaticKeysAreParameters(graph_plain)

\* the keys that do reach a non-transient node are conditions on the staging
\* column of that node
C34_ColumnKeysResolved ==
    \A cg \in {graph_optimized, graph_plain} \ {None} :
        cg.ok =>
            \A statement \in UpdateStatements(cg) :
                statement.kind = "UPDATE" =>
                    \A j \in 1..Len(statement.lookups) :
                        LET l == statement.lookups[j]
                            keys == column_dependencies(cg, l.target_column.index)
                        IN  \A k \in Range(keys) :
                               FindNonTransient(cg, k) # -1 =>
                                  \E c \in Range(l.column_conditions) :
                                      /\ c.key = NodeIdentifier(cg.graph.node[k])[2]
                                      /\ c.dependency =
                                            cg.unique_identifiers[FindNonTransient(cg, k)]

(***************************************************************************)
(* update_processor.rs:88-102, 179-191: placeholders and parameters        *)
(***************************************************************************)
\* the numbers k of the placeholders @Pk of the statement, in the order in
\* which they are written
Placeholders(statement) ==
    Concat([j \in 1..Len(statement.lookups) |->
               [k \in 1..Len(statement.lookups[j].static_conditions) |->
                   statement.lookups[j].static_conditions[k].placeholder]])

\* the dependencies that the partition of the lookup node takes as static
StaticOccurrences(cg, lookup) ==
    LET keys == column_dependencies(cg, lookup)
    IN  {k \in 1..Len(keys) :
            cg.graph.node[EffectiveDependency(cg, keys[k])].kind = "StaticColumn"}

\* the update processor on every group after the first of one built graph
PlaceholdersMatchParameters(cg) ==
    \A statement \in UpdateStatements(cg) :
        /\ statement.kind # "panic"
        /\ statement.kind = "UPDATE" =>
              /\ Len(Placeholders(statement)) = Len(statement.parameters)
              /\ \A j \in 1..Len(statement.lookups) :
                    Len(statement.lookups[j].parameters) =
                        Cardinality(StaticOccurrences(cg,
                            statement.lookups[j].target_column.index))
              /\ \A k \in 1..Len(Placeholders(statement)) :
                    Placeholders(statement)[k] = k

PendingUpdate ==
    UpdateStatement(column_graph, temporary_table, column_graph.groups[group_index])

\* the unique identifiers the statement names as t.<column>: the columns it
\* assigns and the dependencies of its conditions
AssignedColumns(statement) ==
    {statement.lookups[j].target_column : j \in 1..Len(statement.lookups)}

DependencyColumns(statement) ==
    UNION {{statement.lookups[j].column_conditions[k].dependency :
               k \in 1..Len(statement.lookups[j].column_conditions)} :
           j \in 1..Len(statement.lookups)}

\* C36: every staging column that the UPDATE of a group names, assigned or
\* compared, is a column of the staging table created for the mapper, and
\* every compared column belongs to a node of an earlier group, which has
\* been filled before the UPDATE runs
C36_UpdateColumnsExist ==
    (pc = "update" /\ PendingUpdate.kind = "UPDATE") =>
        /\ temporary_table \in DOMAIN database.staging
        /\ AssignedColumns(PendingUpdate) \cup DependencyColumns(PendingUpdate)
              \subseteq ColumnNames(database.staging[temporary_table])
        /\ \A u \in AssignedColumns(PendingUpdate) :
              GroupOf(column_graph, u.index) = group_index
        /\ \A u \in DependencyColumns(PendingUpdate) :
              GroupOf(column_graph, u.index) < group_index

\* an UPDATE that compares with a column that an earlier UPDATE has filled
C36_Witness ==
    /\ pc = "update" /\ PendingUpdate.kind = "UPDATE"
    /\ \E u \in DependencyColumns(PendingUpdate) : GroupOf(column_graph, u.index) > 1
    /\ \E k \in 1..Len(log) : log[k].op = "UPDATE" /\ log[k].ok

(***************************************************************************)
(* merge_processor.rs:77-99: the lists of the INSERT                       *)
(***************************************************************************)
\* the MERGE that merge_processor::execute is about to send
PendingMerge ==
    MergeStatement(column_graph, table_mapper.table_identifier, temporary_table,
                   table_mapper.key_columns)

\* the staging columns the statement names as S.<column>
MergeStagingColumns(statement) ==
    {statement.on_key_columns[k].column : k \in 1..Len(statement.on_key_columns)}
    \cup {statement.set_update_columns[k].temporary_column :
             k \in 1..Len(statement.set_update_columns)}
    \cup Range(statement.insert_columns_temporary)

Quote == "\""

\* Reader::new() with its line counter
ReaderWithLine == [state |-> "StartRecord", output_pos |-> 0, line |-> 1]

\* the reader after a record: the line counter stays
AfterRecord(reader, line) == [state |-> "StartRecord", output_pos |-> 0, line |-> line]

RECURSIVE ReadQuotedRecordFrom(_, _, _, _, _, _, _)
ReadQuotedRecordFrom(reader, input, nin, output, ends, output_room, ends_room) ==
    IF nin = Len(input)
    THEN ReadRecordResult("InputEmpty", reader, nin, output, ends)
    ELSE LET c == input[nin + 1]
             line == reader.line + (IF c = Newline THEN 1 ELSE 0)
             written == [state |-> IF reader.state = "InQuotedField"
                                   THEN "InQuotedField" ELSE "InField",
                         output_pos |-> reader.output_pos + 1, line |-> line]
         IN  IF reader.state = "InQuotedField" /\ c = Quote
             THEN ReadQuotedRecordFrom([reader EXCEPT !.state = "EndQuotedField"], input,
                                       nin + 1, output, ends, output_room, ends_room)
             ELSE IF reader.state = "InQuotedField"
             THEN IF Len(output) = output_room
                  THEN ReadRecordResult("OutputFull", reader, nin, output, ends)
                  ELSE ReadQuotedRecordFrom(written, input, nin + 1, Append(output, c), ends,
                                            output_room, ends_room)
             ELSE IF reader.state = "StartRecord" /\ c = Newline
             THEN ReadQuotedRecordFrom([reader EXCEPT !.line = line], input, nin + 1, output,
                                       ends, output_room, ends_room)
             ELSE IF reader.state \in {"StartRecord", "StartField"} /\ c = Quote
             THEN ReadQuotedRecordFrom([reader EXCEPT !.state = "InQuotedField"], input,
                                       nin + 1, output, ends, output_room, ends_room)
             ELSE IF c \in {Comma, Newline}
             THEN IF Len(ends) = ends_room
                  THEN ReadRecordResult("OutputEndsFull", reader, nin, output, ends)
                  ELSE IF c = Comma
                  THEN ReadQuotedRecordFrom([reader EXCEPT !.state = "StartField"], input,
                                            nin + 1, output, Append(ends, reader.output_pos),
                                            output_room, ends_room)
                  ELSE ReadRecordResult("Record", AfterRecord(reader, line), nin + 1, output,
                                        Append(ends, reader.output_pos))
             ELSE IF Len(output) = output_room
             THEN ReadRecordResult("OutputFull", reader, nin, output, ends)
             ELSE ReadQuotedRecordFrom(written, input, nin + 1, Append(output, c), ends,
                                       output_room, ends_room)

\* reader.read_record(input, output, ends) with quoted fields and lines
read_quoted_record(reader, input, output_room, ends_room) ==
    IF input # <<>>
    THEN ReadQuotedRecordFrom(reader, input, 0, <<>>, <<>>, output_room, ends_room)
    ELSE IF reader.state = "StartRecord"
    THEN ReadRecordResult("End", reader, 0, <<>>, <<>>)
    ELSE IF ends_room = 0
    THEN ReadRecordResult("OutputEndsFull", reader, 0, <<>>, <<>>)
    ELSE ReadRecordResult("Record", AfterRecord(reader, reader.line), 0, <<>>,
                          <<reader.output_pos>>)

\* DataSourceRecordIndex { record_number, line_start, line_end }
WithLines(item, line_start, line_end) ==
    IF item.ok THEN item @@ [line_start |-> line_start, line_end |-> line_end] ELSE item

\* the loop of poll_next from one fill_buf on, up to the arm that leaves it;
\* reads is the number of reads from the file that are Ready before one is
\* Pending
RECURSIVE PollLoop(_, _)
PollLoop(data_source, reads) ==
    IF data_source.buf_reader.buffer = <<>> /\ reads = 0
    THEN [pending |-> TRUE, result |-> "Pending", stream |-> data_source]
    ELSE LET left == IF data_source.buf_reader.buffer = <<>> THEN reads - 1 ELSE reads
             filled == fill_buf(data_source.buf_reader)
             record_buffer == data_source.record_buffer
             rr == read_quoted_record(data_source.reader, filled.buffer,
                       Len(record_buffer.output_buffer) - record_buffer.output_used,
                       Len(record_buffer.ends_buffer) - record_buffer.ends_used)
             buffered == Buffered(record_buffer, rr)
             read == [data_source EXCEPT !.buf_reader = consume(filled, rr.nin),
                                         !.reader = rr.reader,
                                         !.record_buffer = buffered]
         IN  CASE rr.result = "InputEmpty" -> PollLoop(read, left)
               [] rr.result = "OutputFull" ->
                     PollLoop([read EXCEPT !.record_buffer = expand_output(buffered)], left)
               [] rr.result = "OutputEndsFull" ->
                     PollLoop([read EXCEPT !.record_buffer = expand_ends(buffered)], left)
               [] OTHER -> [pending |-> FALSE, result |-> rr.result, stream |-> read]

\* the arms Pending, Record and End of poll_next; line_start is the local
\* of this call
PollNextArm(polled, line_start) ==
    IF polled.result # "Record" THEN polled @@ [item |-> None]
    ELSE [pending |-> FALSE, result |-> "Record",
          stream |-> [polled.stream EXCEPT !.record_buffer = clear(@),
                                           !.record_number = NextRecordNumber(@)],
          item |-> WithLines(
                       create_data_source_record(polled.stream.record_buffer,
                           polled.stream.fields,
                           NextRecordNumber(polled.stream.record_number)),
                       line_start, polled.stream.reader.line - 1)]

\* <DelimitedDataSource as Stream>::poll_next: let line_start = reader.line()
poll_next(data_source, reads) ==
    PollNextArm(PollLoop(data_source, reads), data_source.reader.line)

\* the fields of a row: the text and whether it is written in quotes
Plain(text) == [text |-> text, quoted |-> FALSE]

Quoted(text) == [text |-> text, quoted |-> TRUE]

FieldBytes(field) ==
    IF field.quoted THEN <<Quote>> \o field.text \o <<Quote>> ELSE field.text

RowBytes(row) == Join([k \in 1..Len(row) |-> FieldBytes(row[k])], Comma)

\* rows of two fields, some with a field of two lines
QuotedRows ==
    {<<Plain(<<"x">>), Quoted(<<"y", Newline, "z">>)>>,
     <<Quoted(<<"x", Newline>>), Plain(<<"y">>)>>,
     <<Plain(<<"x">>), Plain(<<"y", "z">>)>>}

\* the rows of a file
MaxQuotedRows == 2

\* the reads that can be Ready in one poll
MaxReads == 5

QuotedFiles ==
    {[kind |-> "quoted", rows |-> rows, buf_size |-> buf_size,
      bytes |-> Join(<<Join(<<FieldA, FieldB>>, Comma)>>
                         \o [k \in 1..Len(rows) |-> RowBytes(rows[k])], Newline)
                    \o <<Newline>>] :
        rows \in UNION {[1..n -> QuotedRows] : n \in 1..MaxQuotedRows},
        buf_size \in 1..MaxBufSize}

InitPoll ==
    /\ import_profile = <<>>
    /\ import_options = [no_merge |-> FALSE, no_drop |-> FALSE,
                         no_duplicate_optimization |-> FALSE]
    /\ pc = "poll"
    /\ table_metadata = None
    /\ mapper_index = 1
    /\ column_graph = None
    /\ temporary_table = None
    /\ group_index = 0
    /\ record = None
    /\ pulled = 0
    /\ insert_error = None
    /\ result = None
    /\ returned = None
    /\ bulk_insert = None
    /\ database = InitialDatabase
    /\ log = <<>>
    /\ source_records = <<>>
    /\ graph_optimized = None
    /\ graph_plain = None
    /\ tables_optimized = None
    /\ tables_plain = None
    /\ file \in QuotedFiles
    /\ stream = None
    /\ stream_pc = "new"
    /\ items = <<>>
    /\ delivered = <<>>
    /\ identifier_kind = None
    /\ identifier_text = <<>>
    /\ identifiers = <<>>

\* DelimitedDataSource::with_buf_reader: the header record, awaited
HeaderPolled(polled) ==
    [buf_reader |-> polled.stream.buf_reader, reader |-> polled.stream.reader,
     fields |-> HeaderFields(polled.stream.record_buffer),
     record_buffer |-> clear(polled.stream.record_buffer),
     record_number |-> 0]

WithBufReader ==
    /\ stream_pc = "new"
    /\ stream' = HeaderPolled(
           PollLoop([buf_reader |-> BufReader(file.buf_size, file.bytes),
                     reader |-> ReaderWithLine, fields |-> <<>>,
                     record_buffer |-> RecordBufferDefault, record_number |-> 0],
                    Len(file.bytes) + 1))
    /\ stream_pc' = "ready"
    /\ UNCHANGED <<file, items, delivered>>
    /\ UNCHANGED <<import_profile, import_options, table_metadata, comparison_vars,
                   executor_vars, identifier_vars>>

\* one poll_next that returns Poll::Pending: the caller polls again later
PollNextPending ==
    /\ stream_pc = "ready"
    /\ \E reads \in 0..MaxReads :
          /\ poll_next(stream, reads).pending
          /\ stream' = poll_next(stream, reads).stream
    /\ UNCHANGED <<file, stream_pc, items, delivered>>
    /\ UNCHANGED <<import_profile, import_options, table_metadata, comparison_vars,
                   executor_vars, identifier_vars>>

\* one poll_next that returns Poll::Ready
PollNextReady ==
    /\ stream_pc = "ready"
    /\ \E reads \in 0..MaxReads :
          /\ ~poll_next(stream, reads).pending
          /\ stream' = poll_next(stream, reads).stream
          /\ delivered' = IF poll_next(stream, reads).item = None THEN delivered
                          ELSE Append(delivered, poll_next(stream, reads).item)
          /\ stream_pc' = IF poll_next(stream, reads).item = None THEN "ended" ELSE "ready"
    /\ UNCHANGED <<file, items>>
    /\ UNCHANGED <<import_profile, import_options, table_metadata, comparison_vars,
                   executor_vars, identifier_vars>>

NextPoll ==
    \/ WithBufReader
    \/ PollNextPending
    \/ PollNextReady

SpecPoll == InitPoll /\ [][NextPoll]_vars

\* the lines a row takes in the file
RowLines(row) ==
    1 + Cardinality({<<k, i>> \in (DOMAIN row) \X (1..3) :
                        i \in DOMAIN row[k].text /\ row[k].text[i] = Newline})

\* the line on which the k-th row of the file begins, after the header line
RECURSIVE RowLineStart(_, _)
RowLineStart(rows, k) ==
    IF k = 1 THEN 2 ELSE RowLineStart(rows, k - 1) + RowLines(rows[k - 1])

\* the k-th item is the record of the k-th row with all of its values
RowValuesDelivered(k) ==
    /\ delivered[k].ok
    /\ delivered[k].record_number = k
    /\ StringMapGet(delivered[k].fields, FieldA) = [value |-> file.rows[k][1].text]
    /\ StringMapGet(delivered[k].fields, FieldB) = [value |-> file.rows[k][2].text]

\* C38: a record that spans several lines or several chunks is emitted with
\* the line on which it begins as line_start and with its field values whole
\* and once, wherever poll_next returned Pending in the middle of the record
\* before it was polled again
C38_LineStartOfRecord ==
    (pc = "poll") =>
        \A k \in 1..Len(delivered) :
            /\ RowValuesDelivered(k)
            /\ delivered[k].line_start = RowLineStart(file.rows, k)

\* the same for the values alone
C38_ValuesComplete ==
    (pc = "poll") => \A k \in 1..Len(delivered) : RowValuesDelivered(k)

\* a record of two lines is delivered with the line on which it begins when
\* no poll returns Pending after the record has begun
C38_LineStartWithoutPending ==
    [][(pc = "poll" /\ stream_pc = "ready" /\ stream.reader.state = "StartRecord"
          /\ Len(delivered') > Len(delivered))
       => delivered'[Len(delivered')].line_start
              = RowLineStart(file.rows, Len(delivered'))]_vars

(***************************************************************************)
(* xml_data_source_stream.rs:158-200: the offsets given to StringMap::new  *)
(***************************************************************************)
\* the safety condition of StringMap::new: the end offsets do not go down in
\* map order and lie in the data
OffsetsInOrder(map) ==
    /\ \A i \in DOMAIN map.indices : map.indices[i][2] <= Len(map.data)
    /\ \A i, j \in DOMAIN map.indices : i < j => map.indices[i][2] <= map.indices[j][2]

\* every lookup of a key of the map returns a text
LookupsReturn(map) ==
    \A i \in DOMAIN map.indices :
        "value" \in DOMAIN StringMapGet(map, map.indices[i][1])

\* C39: for every sequence of field elements in a record element, a field
\* that appears more than once included, the end offsets handed to
\* StringMap::new do not go down in map order, so that every field lookup
\* on the record returns a text and does not fail
C39_OffsetsInOrder ==
    (file # None /\ file.kind = "xml") =>
        \A k \in 1..Len(items) :
            items[k].ok => /\ OffsetsInOrder(items[k].fields)
                           /\ LookupsReturn(items[k].fields)

\* the same for the records of elements that hold no field twice
C39_NoFieldTwice ==
    (Conforming /\ stream_pc = "ended") =>
        \A k \in 1..Len(items) :
            (items[k].ok
             /\ Len(Dedup(FieldNamesOf(file.records[k]))) = Len(FieldNamesOf(file.records[k])))
            => /\ OffsetsInOrder(items[k].fields)
               /\ LookupsReturn(items[k].fields)


(***************************************************************************)
(* import_executor.rs 105-117: the two ? before TemporaryTable::new        *)
(***************************************************************************)
\* the executor returned because create_data_source or ColumnGraph::new failed
CreationFailed ==
    /\ pc = "done"
    /\ ~returned.ok
    /\ returned.error \in {"CreateDataSource", "CreateColumnGraph"}

\* the statements sent for the table mapper the loop is at
StatementsOfMapper == {i \in 1..Len(log) : log[i].mapper = mapper_index}

\* C40: when create_data_source or ColumnGraph::new fails for a table mapper,
\* the step that fails sends no statement and changes no table, and no CREATE,
\* bulk insert, UPDATE, MERGE or DROP was sent for that table mapper before it
C40_FailedCreationIssuesNothing ==
    [][(pc \in {"create_data_source", "column_graph"} /\ pc' = "done")
          => /\ log' = log
             /\ database' = database
             /\ {i \in 1..Len(log') : log'[i].mapper = mapper_index} = {}]_vars

\* the same as a predicate of the state the executor returns in
C40_NoStatementOfFailedMapper == CreationFailed => StatementsOfMapper = {}

\* the column graph of the second table mapper failed after the first table
\* mapper had sent its statements
C40_Witness ==
    /\ CreationFailed
    /\ returned.error = "CreateColumnGraph"
    /\ mapper_index > 1
    /\ log # <<>>

\* the data source of the second table mapper failed after the first one ran
C40_WitnessDataSource ==
    /\ CreationFailed
    /\ returned.error = "CreateDataSource"
    /\ mapper_index > 1
    /\ log # <<>>

====
